---- MODULE Spec2Model ----
(***************************************************************************)
(* Notification dispatch pipeline of the notification service:             *)
(* NotificationService.sendNotification / sendToChannel /                  *)
(* updateNotificationStatus, the template engine, and the controller that  *)
(* answers POST /notifications/send; next to them the handlers that write  *)
(* to the tables a dispatch reads (subscriptions, templates, users).       *)
(*                                                                         *)
(* Every `await` of the code is one action; the synchronous code between   *)
(* two awaits is split into the steps the pipeline names (resolve          *)
(* channels, resolve locale, render, pick provider, pick recipient).       *)
(* A db.query may reject; the number of rejections in one behaviour is     *)
(* bounded by MaxDbFaults.                                                 *)
(***************************************************************************)
EXTENDS Integers, Sequences, FiniteSets, TLC

VARIABLES
    providers,      \* NotificationService.providers: the configured channels
    users,          \* rows of table users
    templates,      \* rows of table notification_templates
    subscriptions,  \* rows of table user_subscriptions
    notifications,  \* rows of table notifications
    frame,          \* per call: the locals of sendNotification/sendToChannel, and
                    \* what the call has done so far (attempted, ids, created,
                    \* steps)
    sendLog,        \* every provider.send invocation, in order
    nextId,         \* source of fresh uuids
    dbFaults,       \* number of db.query rejections so far
    subCall         \* the locals of one request to another handler

vars == <<providers, users, templates, subscriptions, notifications,
          frame, sendLog, nextId, dbFaults, subCall>>

-----------------------------------------------------------------------------
(* Bounds *)

\* longest channel list drawn for a request override, a template or a consent record
MaxChannels == 2
\* most db.query rejections in one behaviour
MaxDbFaults == 2
\* most tokens of a pattern drawn for rendering
MaxPatternLen == 3
\* most direct calls of a provider's send in one behaviour
MaxSends == 2

-----------------------------------------------------------------------------
(* Values *)

Channels == {"APPLE_PUSH", "GOOGLE_PUSH", "SMS", "EMAIL"}

PENDING == "PENDING"
SENT == "SENT"
FAILED == "FAILED"

Tenants == {"t1", "t2"}
CallIds == {"c1", "c2"}

\* JavaScript undefined / SQL NULL for a string-valued field.  The empty
\* string is falsy as well, and the code only ever tests truthiness.
Undefined == ""
Truthy(s) == s # Undefined

\* An optional value: <<>> is undefined, <<v>> is v.
None == <<>>
Some(v) == <<v>>

DefaultLocale == "en-US"

\* Members every plain JavaScript object inherits from Object.prototype and
\* that fit the locale column (VARCHAR(10)).
ObjectPrototypeKeys == {"toString", "valueOf", "__proto__"}

\* What the inherited member looks like when read as a translation: an
\* object without subject, title or body.
InheritedMember == [subject |-> None, title |-> None, body |-> None]

\* Sequences over S of length at most n.
SeqUpTo(S, n) == UNION {[1..k -> S] : k \in 0..n}

Range(s) == {s[k] : k \in DOMAIN s}

DbErrorMessage == "db error"
ForeignKeyMessage ==
    "insert or update on table \"notifications\" violates foreign key constraint "
    \o "\"notifications_user_id_fkey\""

-----------------------------------------------------------------------------
(* Template engine (Handlebars with four registered helpers) *)

VarNames == {"name", "city"}
\* The values of the variables are ASCII texts: a state that TLC writes to
\* its queue on disk does not keep other characters.
Values ==
    {"Ana", "R&D", "john", "JOHN", "2024-01-15", "2024-01-15T22:30:00-05:00"}

\* A pattern is a sequence of tokens: literal text, a bare reference
\* {{name}}, or a helper applied to one reference {{helper name}}.
Lit(s) == [kind |-> "lit", text |-> s, helper |-> "", name |-> ""]
Ref(n) == [kind |-> "var", text |-> "", helper |-> "", name |-> n]
Call(h, n) == [kind |-> "helper", text |-> "", helper |-> h, name |-> n]

RegisteredHelpers == {"uppercase", "lowercase", "formatDate", "formatDateTime"}

\* Helpers every Handlebars environment has before registerHelpers runs and
\* that can be called inline with one argument without throwing.
BuiltinHelpers == {"log"}

\* helper names a template author may write
HelperNames == RegisteredHelpers \cup BuiltinHelpers \cup {"frobnicate"}

\* position of a one-character string in a string, 0 when it is not there
IndexIn(ch, s) ==
    IF \E k \in 1..Len(s) : SubSeq(s, k, k) = ch
    THEN CHOOSE k \in 1..Len(s) : SubSeq(s, k, k) = ch
    ELSE 0

\* Handlebars' escapeExpression, applied to the value of every {{...}}.  The
\* back quote, which it replaces by &#x60;, has no string literal in TLA+ and
\* occurs in no value used here.
EscapeChar(ch) ==
    CASE ch = "&" -> "&amp;"
      [] ch = "<" -> "&lt;"
      [] ch = ">" -> "&gt;"
      [] ch = "\"" -> "&quot;"
      [] ch = "'" -> "&#x27;"
      [] ch = "=" -> "&#x3D;"
      [] OTHER -> ch
RECURSIVE EscapeFrom(_, _)
EscapeFrom(s, k) ==
    IF k > Len(s) THEN "" ELSE EscapeChar(SubSeq(s, k, k)) \o EscapeFrom(s, k + 1)
EscapeExpression(s) == EscapeFrom(s, 1)

\* String.prototype.toUpperCase / toLowerCase on the characters up to U+00FF:
\* the letters of the two tables change case, the sharp s becomes SS in upper
\* case, every other character is left as it is.  The upper case of the y
\* with diaeresis and of the micro sign lies above U+00FF, where no string can
\* be written here: ToUpperCase is not defined on them.
AsciiLower == "abcdefghijklmnopqrstuvwxyz"
AsciiUpper == "ABCDEFGHIJKLMNOPQRSTUVWXYZ"
LowerLetters == AsciiLower \o "àáâãäåæçèéêëìíîïðñòóôõöøùúûüýþ"
UpperLetters == AsciiUpper \o "ÀÁÂÃÄÅÆÇÈÉÊËÌÍÎÏÐÑÒÓÔÕÖØÙÚÛÜÝÞ"
UpperChar(ch) ==
    CASE ch = "ß" -> "SS"
      [] IndexIn(ch, LowerLetters) # 0 ->
            SubSeq(UpperLetters, IndexIn(ch, LowerLetters), IndexIn(ch, LowerLetters))
      [] ch # "ß" /\ IndexIn(ch, LowerLetters) = 0 /\ ch \notin {"ÿ", "µ"} -> ch
LowerChar(ch) ==
    IF IndexIn(ch, UpperLetters) = 0 THEN ch
    ELSE SubSeq(LowerLetters, IndexIn(ch, UpperLetters), IndexIn(ch, UpperLetters))
RECURSIVE UpperFrom(_, _)
UpperFrom(s, k) ==
    IF k > Len(s) THEN "" ELSE UpperChar(SubSeq(s, k, k)) \o UpperFrom(s, k + 1)
RECURSIVE LowerFrom(_, _)
LowerFrom(s, k) ==
    IF k > Len(s) THEN "" ELSE LowerChar(SubSeq(s, k, k)) \o LowerFrom(s, k + 1)
ToUpperCase(s) == UpperFrom(s, 1)
ToLowerCase(s) == LowerFrom(s, 1)

\* new Date(v) for a string v.  A string without a digit is no date.  A
\* string in the date-time string format of ECMAScript (a date YYYY, YYYY-MM
\* or YYYY-MM-DD; or YYYY-MM-DD followed by THH:mm, THH:mm:ss or
\* THH:mm:ss.sss and then by nothing, Z or an offset +HH:mm / -HH:mm) is the
\* date <<year, month, day, hour, minute, second>> in UTC, or <<>> when a
\* field is out of range; a date-time without offset is local time, and the
\* process runs in UTC.  The parser takes any day from 1 to 31 and counts the
\* days a month does not have into the next month.  A date without a time
\* whose month is not one of 1 to 12 or whose day is not one of 1 to 31 goes
\* to the engine's older parser, which reads its numbers as month, day and
\* year of two digits when the first number is a day of a month.
\* On every other string with a digit ParseDate is not defined, nor is it on
\* hour 24.
Digits == "0123456789"
RECURSIVE ShapeFrom(_, _)
ShapeFrom(s, k) ==
    IF k > Len(s) THEN ""
    ELSE (IF IndexIn(SubSeq(s, k, k), Digits) # 0 THEN "9" ELSE SubSeq(s, k, k))
             \o ShapeFrom(s, k + 1)
DateShapes ==
    {"9999", "9999-99", "9999-99-99"}
    \cup {"9999-99-99" \o t \o z : t \in {"T99:99", "T99:99:99", "T99:99:99.999"},
                                  z \in {"", "Z", "+99:99", "-99:99"}}
\* the numbers written in s from position k on, one for each run of digits
\* and 0 for an empty run, after the numbers nums, of which the last one is
\* being read; digit is the place of a character in Digits
Accumulate(nums, digit) ==
    IF digit = 0 THEN Append(nums, 0)
    ELSE [nums EXCEPT ![Len(nums)] = 10 * @ + digit - 1]
RECURSIVE NumbersFrom(_, _, _)
NumbersFrom(s, k, nums) ==
    IF k > Len(s) THEN nums
    ELSE NumbersFrom(s, k + 1, Accumulate(nums, IndexIn(SubSeq(s, k, k), Digits)))
DaysInMonth(y, m) ==
    IF m = 2
    THEN (IF (y % 4 = 0 /\ y % 100 # 0) \/ y % 400 = 0 THEN 29 ELSE 28)
    ELSE IF m \in {4, 6, 9, 11} THEN 30 ELSE 31
\* day d + shift of month m, d from 1 to 31 and shift from -1 to 1
AddDays(y, m, d, shift) ==
    IF d + shift < 1
    THEN (IF m = 1 THEN <<y - 1, 12, 31>> ELSE <<y, m - 1, DaysInMonth(y, m - 1)>>)
    ELSE IF d + shift <= DaysInMonth(y, m) THEN <<y, m, d + shift>>
    ELSE IF m = 12 THEN <<y + 1, 1, d + shift - 31>>
    ELSE <<y, m + 1, d + shift - DaysInMonth(y, m)>>
\* the instant in UTC that is `minutes` after midnight of day d
Instant(y, m, d, minutes, sec) ==
    Some(AddDays(y, m, d, minutes \div 1440)
         \o <<(minutes % 1440) \div 60, minutes % 60, sec>>)
\* the fields of a date-time and of its offset (sign 0: no offset), or of a
\* date whose month and day are in range; a date-time with a field out of
\* range is no date
MakeDate(y, m, d, h, mi, sec, sign, zh, zm) ==
    CASE \/ m \notin 1..12 \/ d \notin 1..31
         \/ h > 24 \/ mi > 59 \/ sec > 59 \/ zh > 23 \/ zm > 59 -> None
      [] m \in 1..12 /\ d \in 1..31 /\ h <= 23 /\ mi <= 59 /\ sec <= 59
            /\ zh <= 23 /\ zm <= 59 ->
            Instant(y, m, d, 60 * h + mi - sign * (60 * zh + zm), sec)
\* nums are the numbers of a string of n characters in a shape of DateShapes;
\* seconds tells whether it has a field for them, zi is where the numbers of
\* the offset are.  legacy: the older parser reads the numbers of a date
\* without a time as month, day and year, the year 1 when the string has two
\* numbers; the years 0 to 49 are 2000 to 2049, the years 50 to 99 are 1950
\* to 1999, the date is local time.  (When the first number is no day of a
\* month it reads year, month, day, and the month or the day is out of range,
\* as the month is here.)
ComposeDate(nums, n, seconds, zi, sign, legacy) ==
    MakeDate(IF ~legacy THEN nums[1]
             ELSE IF n = 7 THEN 2001
             ELSE nums[3] + (IF nums[3] <= 49 THEN 2000 ELSE 1900),
             IF legacy THEN nums[1] ELSE IF n >= 7 THEN nums[2] ELSE 1,
             IF legacy THEN nums[2] ELSE IF n >= 10 THEN nums[3] ELSE 1,
             IF n >= 16 THEN nums[4] ELSE 0,
             IF n >= 16 THEN nums[5] ELSE 0,
             IF seconds THEN nums[6] ELSE 0,
             sign,
             IF sign # 0 THEN nums[zi] ELSE 0,
             IF sign # 0 THEN nums[zi + 1] ELSE 0)
\* a date without a time whose month or day is out of range goes to the
\* older parser
DateOf(nums, n, seconds, zi, sign) ==
    ComposeDate(nums, n, seconds, zi, sign,
                n \in {7, 10} /\ (nums[2] \notin 1..12 \/ (n = 10 /\ nums[3] \notin 1..31)))
ParseDate(s) ==
    CASE \A k \in 1..Len(s) : IndexIn(SubSeq(s, k, k), Digits) = 0 -> None
      [] ShapeFrom(s, 1) \in DateShapes ->
            DateOf(NumbersFrom(s, 1, <<0>>), Len(s),
                   Len(s) >= 19 /\ SubSeq(s, 17, 17) = ":",
                   IF Len(s) >= 23 /\ SubSeq(s, 20, 20) = "." THEN 8
                   ELSE IF Len(s) >= 19 /\ SubSeq(s, 17, 17) = ":" THEN 7 ELSE 6,
                   IF Len(s) > 16 /\ SubSeq(s, Len(s) - 5, Len(s) - 5) = "-" THEN -1
                   ELSE IF Len(s) > 16 /\ SubSeq(s, Len(s) - 5, Len(s) - 5) = "+" THEN 1
                   ELSE 0)

\* toLocaleDateString() / toLocaleString() of a Date, for the locale en-US
\* and the time zone UTC (both are settings of the process); "Invalid Date"
\* for an invalid date.  The year is shown as the year of its era: year 0 is
\* 1 BC and reads 1.
ToLocaleDateString(date) ==
    IF date = None THEN "Invalid Date"
    ELSE ToString(date[1][2]) \o "/" \o ToString(date[1][3]) \o "/"
             \o ToString(IF date[1][1] >= 1 THEN date[1][1] ELSE 1 - date[1][1])
TwoDigits(n) == IF n < 10 THEN "0" \o ToString(n) ELSE ToString(n)
ToLocaleString(date) ==
    IF date = None THEN "Invalid Date"
    ELSE ToLocaleDateString(date) \o ", "
             \o ToString(IF date[1][4] % 12 = 0 THEN 12 ELSE date[1][4] % 12)
             \o ":" \o TwoDigits(date[1][5]) \o ":" \o TwoDigits(date[1][6])
             \o (IF date[1][4] < 12 THEN " AM" ELSE " PM")

Ok(s) == [ok |-> TRUE, text |-> s, error |-> ""]
Err(m) == [ok |-> FALSE, text |-> "", error |-> m]

\* variables[name]: <<>> when the variable is absent.
LookupVar(variables, n) ==
    IF n \in DOMAIN variables THEN Some(variables[n]) ELSE None

\* A helper called with the looked-up argument.  uppercase and lowercase call
\* a string method on their argument and throw a TypeError on undefined; the
\* date helpers format their argument as a date and turn anything that is
\* not a date, undefined included, into "Invalid Date"; the
\* built-in log writes its argument to the console and returns undefined,
\* which renders as the empty string; helperMissing throws for any other name.
ApplyHelper(h, arg) ==
    CASE h = "uppercase" ->
            IF arg = None
            THEN Err("Cannot read properties of undefined (reading 'toUpperCase')")
            ELSE Ok(ToUpperCase(arg[1]))
      [] h = "lowercase" ->
            IF arg = None
            THEN Err("Cannot read properties of undefined (reading 'toLowerCase')")
            ELSE Ok(ToLowerCase(arg[1]))
      [] h = "formatDate" ->
            Ok(ToLocaleDateString(IF arg = None THEN None ELSE ParseDate(arg[1])))
      [] h = "formatDateTime" ->
            Ok(ToLocaleString(IF arg = None THEN None ELSE ParseDate(arg[1])))
      [] h \in BuiltinHelpers -> Ok("")
      [] OTHER -> Err("Missing helper: \"" \o h \o "\"")

RenderToken(tok, variables) ==
    CASE tok.kind = "lit" -> Ok(tok.text)
      [] tok.kind = "var" ->
            LET v == LookupVar(variables, tok.name)
            IN  IF v = None THEN Ok("") ELSE Ok(EscapeExpression(v[1]))
      [] OTHER ->
            LET r == ApplyHelper(tok.helper, LookupVar(variables, tok.name))
            IN  IF r.ok THEN Ok(EscapeExpression(r.text)) ELSE r

RECURSIVE RenderFrom(_, _, _, _)
RenderFrom(pattern, variables, k, acc) ==
    IF k > Len(pattern)
    THEN Ok(acc)
    ELSE LET r == RenderToken(pattern[k], variables)
         IN  IF r.ok
             THEN RenderFrom(pattern, variables, k + 1, acc \o r.text)
             ELSE r

\* TemplateEngine.render: `template` is an optional pattern; compile rejects
\* undefined, every error is rethrown as "Template rendering failed: ...".
TemplateEngineRender(template, variables) ==
    IF template = None
    THEN Err("Template rendering failed: You must pass a string or Handlebars AST "
             \o "to Handlebars.compile. You passed undefined")
    ELSE LET r == RenderFrom(template[1], variables, 1, "")
         IN  IF r.ok THEN r ELSE Err("Template rendering failed: " \o r.error)

-----------------------------------------------------------------------------
(* Database rows and call arguments *)

UserIds == {"u1", "u2", "u9"}
TemplateKeys == {"welcome", "promo"}
Locales == {"en-US", "es-ES"} \cup ObjectPrototypeKeys

\* A row of users: a nullable column holds <<>> for NULL and <<text>> for a
\* text, the empty text included.
UserRow(id, tenant, locale, contacts) ==
    [id |-> id, tenant_id |-> tenant, locale |-> locale,
     email |-> IF "EMAIL" \in contacts THEN Some("ana@example.com") ELSE None,
     phone_number |-> IF "SMS" \in contacts THEN Some("+14155552671") ELSE None,
     apns_device_token |-> IF "APPLE_PUSH" \in contacts THEN Some("apns-token") ELSE None,
     fcm_device_token |-> IF "GOOGLE_PUSH" \in contacts THEN Some("fcm-token") ELSE None,
     timezone |-> None]

\* Localized content blocks.
EnContent ==
    [subject |-> Some(<<Lit("Welcome "), Ref("name")>>), title |-> None,
     body |-> Some(<<Lit("Hi "), Ref("name")>>)]
EsContent ==
    [subject |-> None, title |-> Some(<<Lit("Hola")>>),
     body |-> Some(<<Lit("Hola "), Ref("name")>>)]
EnUnknownHelper ==
    [subject |-> None, title |-> None,
     body |-> Some(<<Lit("Hi "), Call("frobnicate", "name")>>)]
EnUppercase ==
    [subject |-> Some(<<Call("uppercase", "name")>>), title |-> None,
     body |-> Some(<<Lit("Hello")>>)]

\* translations column: locale tag -> content block, any of the tags absent.
TranslationMaps ==
    {en @@ es :
        en \in {<<>>} \cup {(DefaultLocale :> b) :
                                b \in {EnContent, EnUnknownHelper, EnUppercase}},
        es \in {<<>>, ("es-ES" :> EsContent)}}

\* request.variables: undefined or a map.
VariableMaps == {None} \cup {Some(("name" :> v)) : v \in Values}

\* Key order of a JSONB object as PostgreSQL returns it (shorter keys first).
JsonbKeyOrder == <<"SMS", "EMAIL", "APPLE_PUSH", "GOOGLE_PUSH">>

\* Object.entries of a consent object holding the flags f.
EntriesOf(f) ==
    LET keys == SelectSeq(JsonbKeyOrder, LAMBDA k : k \in DOMAIN f)
    IN  [k \in 1..Len(keys) |-> [channel |-> keys[k], enabled |-> f[keys[k]]]]

\* channels column of user_subscriptions: flags for at most MaxChannels channels.
ConsentObjects ==
    {EntriesOf(f) : f \in UNION {[K -> BOOLEAN] :
                        K \in {S \in SUBSET Channels : Cardinality(S) <= MaxChannels}}}

ChannelLists == SeqUpTo(Channels, MaxChannels)

\* Provider tables and contact sets: together they give every channel each of
\* the four (configured?, address?) combinations.
ProviderTables == {{}, {"EMAIL"}, {"EMAIL", "SMS"}, Channels}
ContactSets == {{}, {"EMAIL"}, {"SMS", "APPLE_PUSH"}, Channels}

BaseScenario ==
    [providers |-> {"EMAIL", "SMS"}, contacts |-> {"EMAIL", "APPLE_PUSH"},
     locale |-> "es-ES", tchannels |-> <<"EMAIL", "SMS">>,
     translations |-> (DefaultLocale :> EnContent),
     consent |-> None, tenantId |-> "t1", userId |-> "u1",
     templateKey |-> "welcome", override |-> None,
     variables |-> Some(("name" :> "Ana")), stored |-> {}]

\* Delivery: every override list against the provider tables and contacts.
DeliveryScenarios ==
    {[BaseScenario EXCEPT !.providers = p, !.contacts = a, !.override = Some(o)] :
        p \in ProviderTables, a \in ContactSets, o \in ChannelLists}

\* Channel resolution: one of override, consent record and declared channels
\* ranges over all its values while the other two range over a few.
FewConsents ==
    {None, Some(EntriesOf(("SMS" :> FALSE) @@ ("APPLE_PUSH" :> TRUE))),
     Some(EntriesOf(("EMAIL" :> FALSE)))}
FewLists == {<<>>, <<"EMAIL", "SMS">>}
ResolutionScenarios ==
    {[BaseScenario EXCEPT !.override = o, !.consent = s, !.tchannels = t] :
        o \in {Some(l) : l \in ChannelLists}, s \in FewConsents, t \in FewLists}
    \cup
    {[BaseScenario EXCEPT !.override = o, !.consent = s, !.tchannels = t] :
        o \in {None, Some(<<>>)}, s \in {Some(e) : e \in ConsentObjects}, t \in FewLists}
    \cup
    {[BaseScenario EXCEPT !.override = o, !.tchannels = t] :
        o \in {None, Some(<<>>)}, t \in ChannelLists}

\* Lookups and content: every tenant, user, key, locale, translation map and
\* variable map, sent to a single channel.
ContentScenarios ==
    {[BaseScenario EXCEPT !.tenantId = tn, !.userId = u, !.templateKey = k,
                          !.tchannels = <<"EMAIL">>] :
        tn \in Tenants, u \in UserIds, k \in TemplateKeys}
    \cup
    {[BaseScenario EXCEPT !.locale = l, !.translations = tr, !.variables = v,
                          !.tchannels = <<"EMAIL">>] :
        l \in Locales, tr \in TranslationMaps, v \in VariableMaps}

Scenarios == DeliveryScenarios \cup ResolutionScenarios \cup ContentScenarios

\* Rendering: every pattern of at most MaxPatternLen tokens as the body of the
\* template's only translation, against every variable map.
PatternTokens ==
    {Lit("Hello "), Lit("!")} \cup {Ref(n) : n \in VarNames}
    \cup {Call(h, "name") : h \in {"uppercase", "lowercase", "formatDate",
                                    "formatDateTime", "log", "frobnicate"}}
Patterns == SeqUpTo(PatternTokens, MaxPatternLen)
RenderScenarios ==
    {[BaseScenario EXCEPT !.tchannels = <<"EMAIL">>, !.variables = v,
                          !.translations = (DefaultLocale :>
                              [subject |-> None, title |-> None, body |-> Some(p)])] :
        p \in Patterns, v \in VariableMaps}

\* The locals of a sendNotification call that has not started.
IdleFrame ==
    [pc |-> "idle", tenantId |-> "",
     request |-> [userId |-> "", templateKey |-> "", variables |-> None, channels |-> None],
     userRows |-> <<>>, templateRows |-> <<>>, subscriptionRows |-> <<>>,
     channels |-> <<>>, translation |-> None,
     renderedContent |-> [subject |-> Undefined, title |-> Undefined, body |-> Undefined],
     i |-> 0, notificationId |-> 0, recipient |-> Undefined,
     result |-> [success |-> FALSE, error |-> Undefined],
     update |-> [status |-> PENDING, error |-> Undefined],
     inCatch |-> FALSE, returns |-> 0,
     notificationIds |-> <<>>, errors |-> <<>>,
     value |-> None, thrown |-> Undefined,
     response |-> [status |-> 0, body |-> None, error |-> Undefined],
     body |-> None,
     attempted |-> <<>>, ids |-> <<>>, created |-> {}, steps |-> <<>>]

\* The controller has validated the body and calls
\* notificationService.sendNotification(req.tenant.id, validation.data).
NewFrame(tenantId, request) ==
    [IdleFrame EXCEPT !.pc = "loadUser", !.tenantId = tenantId, !.request = request]

\* The locals of the one other request, before it has arrived: the handler
\* that serves it (op), and the locals of updateSubscription.
IdleSubCall ==
    [pc |-> "idle", op |-> "", tenantId |-> "", userId |-> "",
     data |-> [templateKey |-> "", channels |-> <<>>],
     existing |-> <<>>, status |-> 0]

\* The rows and providers of scenario s, with the frames of the two calls.
StartFrames(s, first, second) ==
    /\ providers = s.providers
    /\ users = {UserRow("u1", "t1", s.locale, s.contacts),
                UserRow("u2", "t2", DefaultLocale, {"EMAIL"})} \cup s.stored
    /\ templates =
          {[tenant_id |-> "t1", key |-> "welcome", name |-> "Welcome",
            description |-> Undefined, channels |-> s.tchannels,
            translations |-> s.translations],
           [tenant_id |-> "t2", key |-> "promo", name |-> "Promotion",
            description |-> Undefined, channels |-> <<"EMAIL">>,
            translations |-> (DefaultLocale :> EnContent)]}
    /\ subscriptions =
          IF s.consent = None THEN {}
          ELSE {[user_id |-> "u1", tenant_id |-> "t1", template_key |-> "welcome",
                 channels |-> s.consent[1]]}
    /\ notifications = {}
    /\ frame = [c \in CallIds |-> IF c = "c1" THEN first ELSE second]
    /\ sendLog = <<>>
    /\ nextId = 1
    /\ dbFaults = 0
    /\ subCall = IdleSubCall

\* The state in which the controller calls sendNotification, for scenario s;
\* second is the frame of the other call.
StartCalls(s, second) ==
    StartFrames(s, NewFrame(s.tenantId,
                            [userId |-> s.userId, templateKey |-> s.templateKey,
                             variables |-> s.variables, channels |-> s.override]),
                second)

\* one call in flight
Start(s) == StartCalls(s, IdleFrame)

Init == \E s \in Scenarios : Start(s)

InitRender == \E s \in RenderScenarios : Start(s)

-----------------------------------------------------------------------------
(* Pure steps of sendNotification *)

\* rows of a SELECT that can match at most one row
RowsOf(S) == IF S = {} THEN <<>> ELSE <<CHOOSE r \in S : TRUE>>

\* obj[key] on a plain object: an own entry, else what Object.prototype
\* provides, else undefined.
GetProperty(obj, key) ==
    IF key \in DOMAIN obj THEN Some(obj[key])
    ELSE IF key \in ObjectPrototypeKeys THEN Some(InheritedMember)
    ELSE None

\* Variant: the consent record is consulted before the request's override.
MutResolveConsentFirst(request, subscriptionRows, template) ==
    IF Len(subscriptionRows) > 0
    THEN LET enabled == SelectSeq(subscriptionRows[1].channels, LAMBDA e : e.enabled)
         IN  [k \in 1..Len(enabled) |-> enabled[k].channel]
    ELSE IF request.channels # None /\ Len(request.channels[1]) > 0
    THEN request.channels[1]
    ELSE template.channels

\* Variant: every channel named in the consent record is used, whatever its flag.
MutResolveIgnoreFlags(request, subscriptionRows, template) ==
    IF request.channels # None /\ Len(request.channels[1]) > 0
    THEN request.channels[1]
    ELSE IF Len(subscriptionRows) > 0
    THEN LET entries == subscriptionRows[1].channels
         IN  [k \in 1..Len(entries) |-> entries[k].channel]
    ELSE template.channels

\* Variant: without override and consent record every channel is used.
MutResolveDefaultAll(request, subscriptionRows, template) ==
    IF request.channels # None /\ Len(request.channels[1]) > 0
    THEN request.channels[1]
    ELSE IF Len(subscriptionRows) > 0
    THEN LET enabled == SelectSeq(subscriptionRows[1].channels, LAMBDA e : e.enabled)
         IN  [k \in 1..Len(enabled) |-> enabled[k].channel]
    ELSE JsonbKeyOrder

\* Variant: a consent record that enables nothing falls back to the template's
\* declared channels.
MutResolveFallbackWhenEmpty(request, subscriptionRows, template) ==
    IF request.channels # None /\ Len(request.channels[1]) > 0
    THEN request.channels[1]
    ELSE LET enabled == IF Len(subscriptionRows) > 0
                        THEN SelectSeq(subscriptionRows[1].channels, LAMBDA e : e.enabled)
                        ELSE <<>>
         IN  IF Len(enabled) > 0
             THEN [k \in 1..Len(enabled) |-> enabled[k].channel]
             ELSE template.channels

\* Variant: the override is filtered through the consent record's flags.
MutResolveOverrideFiltered(request, subscriptionRows, template) ==
    LET enabled == IF Len(subscriptionRows) > 0
                   THEN SelectSeq(subscriptionRows[1].channels, LAMBDA e : e.enabled)
                   ELSE <<>>
        disabled == IF Len(subscriptionRows) > 0
                    THEN {e.channel : e \in {x \in Range(subscriptionRows[1].channels) :
                                                ~x.enabled}}
                    ELSE {}
    IN  IF request.channels # None /\ Len(request.channels[1]) > 0
        THEN SelectSeq(request.channels[1], LAMBDA ch : ch \notin disabled)
        ELSE IF Len(subscriptionRows) > 0
        THEN [k \in 1..Len(enabled) |-> enabled[k].channel]
        ELSE template.channels

\* "Determine which channels to use"
ResolveChannelList(request, subscriptionRows, template) ==
    IF request.channels # None /\ Len(request.channels[1]) > 0
    THEN request.channels[1]
    ELSE IF Len(subscriptionRows) > 0
    THEN LET enabled == SelectSeq(subscriptionRows[1].channels, LAMBDA e : e.enabled)
         IN  [k \in 1..Len(enabled) |-> enabled[k].channel]
    ELSE template.channels

\* template.translations[user.locale] || template.translations['en-US']
ResolveTranslation(translations, locale) ==
    LET exact == GetProperty(translations, locale)
    IN  IF exact # None THEN exact ELSE GetProperty(translations, DefaultLocale)

\* request.variables || {}
VariablesOrEmpty(request) ==
    IF request.variables = None THEN <<>> ELSE request.variables[1]

\* translation.subject ? render(...) : undefined  (an empty pattern is falsy)
RenderOptional(field, variables) ==
    IF field = None \/ field[1] = <<>>
    THEN Ok(Undefined)
    ELSE TemplateEngineRender(field, variables)

\* "Render template with variables": subject, title, body in this order; the
\* first render that throws ends the evaluation.
RenderContentOf(translation, variables) ==
    LET subject == RenderOptional(translation.subject, variables)
        title == RenderOptional(translation.title, variables)
        body == TemplateEngineRender(translation.body, variables)
        failed(e) == [ok |-> FALSE, error |-> e, content |-> IdleFrame.renderedContent]
    IN  IF ~subject.ok THEN failed(subject.error)
        ELSE IF ~title.ok THEN failed(title.error)
        ELSE IF ~body.ok THEN failed(body.error)
        ELSE [ok |-> TRUE, error |-> "",
              content |-> [subject |-> subject.text, title |-> title.text, body |-> body.text]]

\* "Determine recipient"
\* what a nullable column reads as where only its truth matters: null and
\* the empty text are both falsy
Text(column) == IF column = None THEN Undefined ELSE column[1]
RecipientOf(user, channel) ==
    CASE channel = "APPLE_PUSH" -> Text(user.apns_device_token)
      [] channel = "GOOGLE_PUSH" -> Text(user.fcm_device_token)
      [] channel = "SMS" -> Text(user.phone_number)
      [] channel = "EMAIL" -> Text(user.email)

\* the entry pushed to `errors` for a channel whose sendToChannel returned null
ChannelError(channel) == [channel |-> channel, error |-> "Failed to send notification"]

\* Variant: success means that no channel failed.
MutAggregateNoErrors(notificationIds, errors) ==
    [success |-> Len(errors) = 0,
     notificationIds |-> notificationIds,
     errors |-> IF Len(errors) > 0 THEN Some(errors) ELSE None]

\* the value sendNotification returns
AggregateResult(notificationIds, errors) ==
    [success |-> Len(notificationIds) > 0,
     notificationIds |-> notificationIds,
     errors |-> IF Len(errors) > 0 THEN Some(errors) ELSE None]

\* Variant: the outer catch drops the cause.
MutWrapErrorGeneric(message) == "Failed to send notification"

\* the message of the error the outer catch rethrows
WrapError(message) == "Failed to send notification: " \o message

\* what a configured provider's send resolves to
ProviderResults ==
    {[success |-> TRUE, error |-> Undefined],
     [success |-> FALSE, error |-> "Unregistered"]}

-----------------------------------------------------------------------------
(* Providers *)

\* What the transport behind a provider does when it is called: it resolves
\* (for APNs with the lists of failed and sent devices), or it throws an Error
\* or some other value.
Resolves(id) ==
    [kind |-> "resolves", id |-> id, failed |-> <<>>, sent |-> <<>>,
     isError |-> FALSE, message |-> Undefined]
Throws(isError, message) ==
    [kind |-> "throws", id |-> Undefined, failed |-> <<>>, sent |-> <<>>,
     isError |-> isError, message |-> message]
ApnsResolves(failed, sent) ==
    [kind |-> "resolves", id |-> Undefined, failed |-> failed, sent |-> sent,
     isError |-> FALSE, message |-> Undefined]
TransportOutcomes(channel) ==
    {Throws(TRUE, "connection refused"), Throws(FALSE, "timeout")}
    \cup
    IF channel = "APPLE_PUSH"
    THEN {ApnsResolves(<<>>, <<"apns-token">>), ApnsResolves(<<>>, <<>>),
          ApnsResolves(<<"BadDeviceToken">>, <<>>), ApnsResolves(<<Undefined>>, <<>>)}
    ELSE {Resolves("msg-1")}

\* the outcome of one call of send: the value it resolves to or the exception
\* it rejects with, and how often it called its transport
Returns(result, calls) == [returns |-> Some(result), thrown |-> Undefined, calls |-> calls]
Rejects(message, calls) == [returns |-> None, thrown |-> message, calls |-> calls]
SendSuccess(messageId) == [success |-> TRUE, messageId |-> messageId, error |-> Undefined]
SendFailure(error) == [success |-> FALSE, messageId |-> Undefined, error |-> error]

\* error instanceof Error ? error.message : 'Unknown error'
CaughtMessage(t) == IF t.isError THEN t.message ELSE "Unknown error"

ApnsSend(configured, t) ==
    IF ~configured THEN Returns(SendFailure("APNs provider not configured"), 0)
    ELSE IF t.kind = "throws" THEN Returns(SendFailure(CaughtMessage(t)), 1)
    ELSE IF Len(t.failed) > 0
    THEN Returns(SendFailure(IF Truthy(t.failed[1]) THEN t.failed[1]
                             ELSE "Unknown error"), 1)
    ELSE Returns(SendSuccess(IF Len(t.sent) > 0 /\ Truthy(t.sent[1]) THEN t.sent[1]
                             ELSE Undefined), 1)

FcmSend(configured, t) ==
    IF ~configured THEN Returns(SendFailure("FCM provider not configured"), 0)
    ELSE IF t.kind = "throws" THEN Returns(SendFailure(CaughtMessage(t)), 1)
    ELSE Returns(SendSuccess(t.id), 1)

\* Variant: an exception of the transport escapes from send.
MutSmsSendRethrow(configured, t) ==
    IF ~configured THEN Returns(SendFailure("SMS provider not configured"), 0)
    ELSE IF t.kind = "throws" THEN Rejects(CaughtMessage(t), 1)
    ELSE Returns(SendSuccess(t.id), 1)

SmsSend(configured, t) ==
    IF ~configured THEN Returns(SendFailure("SMS provider not configured"), 0)
    ELSE IF t.kind = "throws" THEN Returns(SendFailure(CaughtMessage(t)), 1)
    ELSE Returns(SendSuccess(t.id), 1)

EmailSend(configured, t) ==
    IF ~configured THEN Returns(SendFailure("Email provider not configured"), 0)
    ELSE IF t.kind = "throws" THEN Returns(SendFailure(CaughtMessage(t)), 1)
    ELSE Returns(SendSuccess(t.id), 1)

\* send of the provider object constructed for the channel
SendOf(channel, configured, t) ==
    CASE channel = "APPLE_PUSH" -> ApnsSend(configured, t)
      [] channel = "GOOGLE_PUSH" -> FcmSend(configured, t)
      [] channel = "SMS" -> SmsSend(configured, t)
      [] channel = "EMAIL" -> EmailSend(configured, t)

-----------------------------------------------------------------------------
(* Actions *)

store == <<providers, users, templates, subscriptions>>

\* a db.query either resolves or rejects
DbQuery(rejected) ==
    /\ rejected => dbFaults < MaxDbFaults
    /\ dbFaults' = IF rejected THEN dbFaults + 1 ELSE dbFaults

\* an exception reaches the catch of sendNotification
Throw(c, step, message) ==
    frame' = [frame EXCEPT ![c].steps = Append(@, step), ![c].pc = "threw",
                           ![c].thrown = WrapError(message)]

\* SELECT * FROM users WHERE id = $1 AND tenant_id = $2
LoadUser(c) ==
    /\ frame[c].pc = "loadUser"
    /\ \E rejected \in BOOLEAN :
        /\ DbQuery(rejected)
        /\ LET rows == RowsOf({u \in users : /\ u.id = frame[c].request.userId
                                              /\ u.tenant_id = frame[c].tenantId})
           IN  IF rejected THEN Throw(c, "loadUser", DbErrorMessage)
               ELSE IF Len(rows) = 0 THEN Throw(c, "loadUser", "User not found")
               ELSE frame' = [frame EXCEPT
                          ![c].steps = Append(@, "loadUser"),
                          ![c].pc = "loadTemplate", ![c].userRows = rows]
    /\ UNCHANGED <<store, subCall, notifications, sendLog, nextId>>

\* SELECT * FROM notification_templates WHERE tenant_id = $1 AND key = $2
LoadTemplate(c) ==
    /\ frame[c].pc = "loadTemplate"
    /\ \E rejected \in BOOLEAN :
        /\ DbQuery(rejected)
        /\ LET rows == RowsOf({t \in templates : /\ t.tenant_id = frame[c].tenantId
                                                  /\ t.key = frame[c].request.templateKey})
           IN  IF rejected THEN Throw(c, "loadTemplate", DbErrorMessage)
               ELSE IF Len(rows) = 0 THEN Throw(c, "loadTemplate", "Template not found")
               ELSE frame' = [frame EXCEPT
                          ![c].steps = Append(@, "loadTemplate"),
                          ![c].pc = "loadSubscription",
                          ![c].templateRows = rows]
    /\ UNCHANGED <<store, subCall, notifications, sendLog, nextId>>

\* SELECT channels FROM user_subscriptions WHERE user_id = $1 AND template_key = $2
LoadSubscription(c) ==
    /\ frame[c].pc = "loadSubscription"
    /\ \E rejected \in BOOLEAN :
        /\ DbQuery(rejected)
        /\ LET rows == RowsOf({r \in subscriptions :
                                  /\ r.user_id = frame[c].userRows[1].id
                                  /\ r.template_key = frame[c].request.templateKey})
           IN  IF rejected THEN Throw(c, "loadSubscription", DbErrorMessage)
               ELSE frame' = [frame EXCEPT
                          ![c].steps = Append(@, "loadSubscription"),
                          ![c].pc = "resolveChannels",
                          ![c].subscriptionRows = rows]
    /\ UNCHANGED <<store, subCall, notifications, sendLog, nextId>>

\* Variant: the delivery record of the first channel is created as soon as
\* the channels are known, before locale resolution and rendering.
MutResolveChannelsEager(c) ==
    /\ frame[c].pc = "resolveChannels"
    /\ LET channels == ResolveChannelList(frame[c].request, frame[c].subscriptionRows,
                                          frame[c].templateRows[1])
       IN  /\ frame' = [frame EXCEPT
                 ![c].steps = Append(@, "resolveChannels"), ![c].pc = "resolveLocale",
                 ![c].channels = channels,
                 ![c].created = IF channels = <<>> THEN @ ELSE @ \cup {nextId}]
           /\ notifications' =
                 IF channels = <<>> THEN notifications
                 ELSE notifications \cup
                        {[id |-> nextId, tenant_id |-> frame[c].tenantId,
                          user_id |-> frame[c].userRows[1].id,
                          template_key |-> frame[c].templateRows[1].key,
                          channel |-> channels[1], status |-> PENDING,
                          variables |-> VariablesOrEmpty(frame[c].request),
                          rendered_content |-> frame[c].renderedContent,
                          error |-> Undefined, sent_at |-> Undefined]}
    /\ nextId' = nextId + 1
    /\ UNCHANGED <<store, subCall, sendLog, dbFaults>>

ResolveChannels(c) ==
    /\ frame[c].pc = "resolveChannels"
    /\ frame' = [frame EXCEPT
             ![c].steps = Append(@, "resolveChannels"),
             ![c].pc = "resolveLocale",
             ![c].channels = ResolveChannelList(frame[c].request, frame[c].subscriptionRows,
                                             frame[c].templateRows[1])]
    /\ UNCHANGED <<store, subCall, notifications, sendLog, nextId, dbFaults>>

ResolveLocale(c) ==
    /\ frame[c].pc = "resolveLocale"
    /\ LET translation == ResolveTranslation(frame[c].templateRows[1].translations,
                                             frame[c].userRows[1].locale)
       IN  IF translation = None
           THEN Throw(c, "resolveLocale", "No translation available for user locale")
           ELSE frame' = [frame EXCEPT
                      ![c].steps = Append(@, "resolveLocale"),
                      ![c].pc = "render", ![c].translation = translation]
    /\ UNCHANGED <<store, subCall, notifications, sendLog, nextId, dbFaults>>

\* Variant: a field that fails to render is left out and the call goes on.
MutRenderContentLenient(c) ==
    /\ frame[c].pc = "render"
    /\ LET r == RenderContentOf(frame[c].translation[1], VariablesOrEmpty(frame[c].request))
       IN  frame' = [frame EXCEPT
                ![c].steps = Append(@, "render"),
                ![c].pc = "loop", ![c].renderedContent = r.content,
                ![c].i = 1]
    /\ UNCHANGED <<store, subCall, notifications, sendLog, nextId, dbFaults>>

RenderContent(c) ==
    /\ frame[c].pc = "render"
    /\ \E r \in {RenderContentOf(frame[c].translation[1], VariablesOrEmpty(frame[c].request))} :
          IF ~r.ok
          THEN Throw(c, "render", r.error)
          ELSE frame' = [frame EXCEPT
                     ![c].steps = Append(@, "render"),
                     ![c].pc = "loop", ![c].renderedContent = r.content,
                     ![c].i = 1]
    /\ UNCHANGED <<store, subCall, notifications, sendLog, nextId, dbFaults>>

\* for (const channel of channels): the call of sendToChannel, up to its first await
EnterSendToChannel(c) ==
    /\ frame[c].pc = "loop"
    /\ frame[c].i <= Len(frame[c].channels)
    /\ frame' = [frame EXCEPT
             ![c].steps = Append(@, "sendToChannel"),
             ![c].pc = "insert",
             ![c].notificationId = nextId,
             ![c].inCatch = FALSE,
             ![c].attempted = Append(@, frame[c].channels[frame[c].i]),
             ![c].ids = Append(@, nextId)]
    /\ nextId' = nextId + 1
    /\ UNCHANGED <<store, subCall, notifications, sendLog, dbFaults>>

\* the handler of sendToChannel's catch: updateNotificationStatus(FAILED, message); return null
Caught(c, step, message) ==
    frame' = [frame EXCEPT ![c].steps = Append(@, step),
                           ![c].pc = "update", ![c].inCatch = TRUE, ![c].returns = 0,
                           ![c].update = [status |-> FAILED, error |-> message]]

\* Variant: a rejected INSERT is swallowed and the channel goes on to its
\* provider without a delivery record.
MutInsertIgnoreFailure(c) ==
    /\ frame[c].pc = "insert"
    /\ \E rejected \in BOOLEAN :
        /\ DbQuery(rejected)
        /\ notifications' =
              IF rejected \/ ~\E u \in users : u.id = frame[c].userRows[1].id
              THEN notifications
              ELSE notifications \cup
                     {[id |-> frame[c].notificationId,
                       tenant_id |-> frame[c].tenantId,
                       user_id |-> frame[c].userRows[1].id,
                       template_key |-> frame[c].templateRows[1].key,
                       channel |-> frame[c].channels[frame[c].i],
                       status |-> PENDING,
                       variables |-> VariablesOrEmpty(frame[c].request),
                       rendered_content |-> frame[c].renderedContent,
                       error |-> Undefined,
                       sent_at |-> Undefined]}
        /\ frame' = [frame EXCEPT
                 ![c].steps = Append(@, "insert"),
                 ![c].pc = "getProvider",
                 ![c].created = IF notifications' = notifications THEN @
                                ELSE @ \cup {frame[c].notificationId}]
    /\ UNCHANGED <<store, subCall, sendLog, nextId>>

\* INSERT INTO notifications (...) VALUES (..., PENDING, ...); user_id
\* references users(id)
InsertNotification(c) ==
    /\ frame[c].pc = "insert"
    /\ \E rejected \in BOOLEAN :
        /\ DbQuery(rejected)
        /\ IF rejected
           THEN /\ Caught(c, "insert", DbErrorMessage)
                /\ UNCHANGED notifications
           ELSE IF ~\E u \in users : u.id = frame[c].userRows[1].id
           THEN /\ Caught(c, "insert", ForeignKeyMessage)
                /\ UNCHANGED notifications
           ELSE /\ notifications' = notifications \cup
                      {[id |-> frame[c].notificationId,
                        tenant_id |-> frame[c].tenantId,
                        user_id |-> frame[c].userRows[1].id,
                        template_key |-> frame[c].templateRows[1].key,
                        channel |-> frame[c].channels[frame[c].i],
                        status |-> PENDING,
                        variables |-> VariablesOrEmpty(frame[c].request),
                        rendered_content |-> frame[c].renderedContent,
                        error |-> Undefined,
                        sent_at |-> Undefined]}
                /\ frame' = [frame EXCEPT
                         ![c].steps = Append(@, "insert"),
                         ![c].pc = "getProvider",
                         ![c].created = @ \cup {frame[c].notificationId}]
    /\ UNCHANGED <<store, subCall, sendLog, nextId>>

\* Variant: the recipient is looked at before the provider table.
MutGetProviderAfterRecipient(c) ==
    /\ frame[c].pc = "getProvider"
    /\ LET channel == frame[c].channels[frame[c].i]
           recipient == RecipientOf(frame[c].userRows[1], channel)
       IN  IF ~Truthy(recipient)
           THEN frame' = [frame EXCEPT
                      ![c].steps = Append(@, "getProvider"),
                      ![c].pc = "update", ![c].returns = 0,
                      ![c].update = [status |-> FAILED,
                                  error |-> "No recipient configured for channel " \o channel]]
           ELSE IF channel \notin providers
           THEN frame' = [frame EXCEPT
                      ![c].steps = Append(@, "getProvider"),
                      ![c].pc = "update", ![c].returns = 0,
                      ![c].update = [status |-> FAILED,
                                  error |-> "Provider not configured for channel " \o channel]]
           ELSE frame' = [frame EXCEPT
                      ![c].steps = Append(@, "getProvider"),
                      ![c].pc = "recipient"]
    /\ UNCHANGED <<store, subCall, notifications, sendLog, nextId, dbFaults>>

\* this.providers.get(channel)
GetProvider(c) ==
    /\ frame[c].pc = "getProvider"
    /\ LET channel == frame[c].channels[frame[c].i]
       IN  IF channel \notin providers
           THEN frame' = [frame EXCEPT
                      ![c].steps = Append(@, "getProvider"),
                      ![c].pc = "update", ![c].returns = 0,
                      ![c].update = [status |-> FAILED,
                                  error |-> "Provider not configured for channel " \o channel]]
           ELSE frame' = [frame EXCEPT
                      ![c].steps = Append(@, "getProvider"),
                      ![c].pc = "recipient"]
    /\ UNCHANGED <<store, subCall, notifications, sendLog, nextId, dbFaults>>

DetermineRecipient(c) ==
    /\ frame[c].pc = "recipient"
    /\ LET channel == frame[c].channels[frame[c].i]
           recipient == RecipientOf(frame[c].userRows[1], channel)
       IN  IF ~Truthy(recipient)
           THEN frame' = [frame EXCEPT
                      ![c].steps = Append(@, "recipient"),
                      ![c].pc = "update", ![c].returns = 0, ![c].recipient = recipient,
                      ![c].update = [status |-> FAILED,
                                  error |-> "No recipient configured for channel " \o channel]]
           ELSE frame' = [frame EXCEPT
                      ![c].steps = Append(@, "recipient"),
                      ![c].pc = "send", ![c].recipient = recipient]
    /\ UNCHANGED <<store, subCall, notifications, sendLog, nextId, dbFaults>>

\* await provider.send({to, title, body, subject, data})
ProviderSend(c) ==
    /\ frame[c].pc = "send"
    /\ \E result \in ProviderResults :
        /\ frame' = [frame EXCEPT ![c].steps = Append(@, "send"), ![c].pc = "update",
              ![c].result = result,
              ![c].returns = IF result.success THEN frame[c].notificationId ELSE 0,
              ![c].update = IF result.success
                            THEN [status |-> SENT, error |-> Undefined]
                            ELSE [status |-> FAILED, error |-> result.error]]
        /\ sendLog' = Append(sendLog,
              [call |-> c, channel |-> frame[c].channels[frame[c].i],
               notificationId |-> frame[c].notificationId,
               to |-> frame[c].recipient, body |-> frame[c].renderedContent.body,
               success |-> result.success, error |-> result.error])
    /\ UNCHANGED <<store, subCall, notifications, nextId, dbFaults>>

\* Variant: the WHERE clause selects by channel instead of by id.
MutUpdatedRowsByChannel(rows, id, update) ==
    LET own == {r.channel : r \in {q \in rows : q.id = id}}
    IN  {IF r.channel \in own
         THEN [r EXCEPT !.status = update.status, !.error = update.error,
                        !.sent_at = IF update.status = SENT THEN "now" ELSE Undefined]
         ELSE r : r \in rows}

\* Variant: sent_at is stamped by every status update.
MutUpdatedRowsStampAlways(rows, id, update) ==
    {IF r.id = id
     THEN [r EXCEPT !.status = update.status, !.error = update.error,
                    !.sent_at = "now"]
     ELSE r : r \in rows}

\* UPDATE notifications SET status = $1, error = $2, sent_at = $3 WHERE id = $4
UpdatedRows(rows, id, update) ==
    {IF r.id = id
     THEN [r EXCEPT !.status = update.status, !.error = update.error,
                    !.sent_at = IF update.status = SENT THEN "now" ELSE Undefined]
     ELSE r : r \in rows}

\* Variant: when the handler's own UPDATE is rejected, the records of the call
\* are removed before the error is passed on.
MutUpdateStatusRollback(c) ==
    /\ frame[c].pc = "update"
    /\ \E rejected \in BOOLEAN :
        /\ DbQuery(rejected)
        /\ IF ~rejected
           THEN /\ notifications' = UpdatedRows(notifications, frame[c].notificationId,
                                                frame[c].update)
                /\ frame' = [frame EXCEPT
                         ![c].steps = Append(@, "update"),
                         ![c].pc = "collect"]
           ELSE IF frame[c].inCatch
                THEN /\ notifications' =
                           {n \in notifications : n.id \notin frame[c].created}
                     /\ Throw(c, "update", DbErrorMessage)
                ELSE /\ UNCHANGED notifications
                     /\ Caught(c, "update", DbErrorMessage)
    /\ UNCHANGED <<store, subCall, sendLog, nextId>>

\* Variant: a rejection of the handler's own UPDATE is swallowed and the
\* channel counts as failed.
MutUpdateStatusSwallow(c) ==
    /\ frame[c].pc = "update"
    /\ \E rejected \in BOOLEAN :
        /\ DbQuery(rejected)
        /\ IF ~rejected
           THEN /\ notifications' = UpdatedRows(notifications, frame[c].notificationId,
                                                frame[c].update)
                /\ frame' = [frame EXCEPT
                         ![c].steps = Append(@, "update"),
                         ![c].pc = "collect"]
           ELSE /\ UNCHANGED notifications
                /\ IF frame[c].inCatch
                   THEN frame' = [frame EXCEPT
                            ![c].steps = Append(@, "update"),
                            ![c].pc = "collect"]
                   ELSE Caught(c, "update", DbErrorMessage)
    /\ UNCHANGED <<store, subCall, sendLog, nextId>>

\* updateNotificationStatus, called from the try block or from the catch handler
UpdateNotificationStatus(c) ==
    /\ frame[c].pc = "update"
    /\ \E rejected \in BOOLEAN :
        /\ DbQuery(rejected)
        /\ IF ~rejected
           THEN /\ notifications' = UpdatedRows(notifications, frame[c].notificationId,
                                                frame[c].update)
                /\ frame' = [frame EXCEPT
                         ![c].steps = Append(@, "update"),
                         ![c].pc = "collect"]
           ELSE /\ UNCHANGED notifications
                /\ IF frame[c].inCatch
                   THEN Throw(c, "update", DbErrorMessage)
                   ELSE Caught(c, "update", DbErrorMessage)
    /\ UNCHANGED <<store, subCall, sendLog, nextId>>

\* Variant: a channel that already has a failure entry gets no second one.
MutCollectDedupErrors(c) ==
    /\ frame[c].pc = "collect"
    /\ LET channel == frame[c].channels[frame[c].i]
           known == \E k \in DOMAIN frame[c].errors : frame[c].errors[k].channel = channel
       IN  frame' = [frame EXCEPT ![c].steps = Append(@, "collect"), ![c].pc = "loop",
                 ![c].i = @ + 1,
                 ![c].notificationIds = IF frame[c].returns # 0
                                        THEN Append(@, frame[c].returns) ELSE @,
                 ![c].errors = IF frame[c].returns # 0 \/ known THEN @
                               ELSE Append(@, ChannelError(channel))]
    /\ UNCHANGED <<store, subCall, notifications, sendLog, nextId, dbFaults>>

\* Variant: a channel that failed for the first time is tried once more.
MutCollectRetryOnce(c) ==
    /\ frame[c].pc = "collect"
    /\ LET channel == frame[c].channels[frame[c].i]
           known == \E k \in DOMAIN frame[c].errors : frame[c].errors[k].channel = channel
       IN  frame' = [frame EXCEPT ![c].steps = Append(@, "collect"), ![c].pc = "loop",
                 ![c].i = IF frame[c].returns = 0 /\ ~known THEN @ ELSE @ + 1,
                 ![c].notificationIds = IF frame[c].returns # 0
                                        THEN Append(@, frame[c].returns) ELSE @,
                 ![c].errors = IF frame[c].returns # 0 THEN @
                               ELSE Append(@, ChannelError(channel))]
    /\ UNCHANGED <<store, subCall, notifications, sendLog, nextId, dbFaults>>

\* if (notificationId) notificationIds.push(...) else errors.push(...)
CollectResult(c) ==
    /\ frame[c].pc = "collect"
    /\ frame' = [frame EXCEPT ![c].steps = Append(@, "collect"), ![c].pc = "loop",
          ![c].i = @ + 1,
          ![c].notificationIds = IF frame[c].returns # 0
                                 THEN Append(@, frame[c].returns) ELSE @,
          ![c].errors = IF frame[c].returns # 0 THEN @
                        ELSE Append(@, ChannelError(frame[c].channels[frame[c].i]))]
    /\ UNCHANGED <<store, subCall, notifications, sendLog, nextId, dbFaults>>

\* return {success, notificationIds, errors}
ReturnResult(c) ==
    /\ frame[c].pc = "loop"
    /\ frame[c].i > Len(frame[c].channels)
    /\ frame' = [frame EXCEPT ![c].steps = Append(@, "return"), ![c].pc = "returned",
          ![c].value = Some(AggregateResult(frame[c].notificationIds, frame[c].errors))]
    /\ UNCHANGED <<store, subCall, notifications, sendLog, nextId, dbFaults>>

\* controller: res.json(result)
RespondResult(c) ==
    /\ frame[c].pc = "returned"
    /\ frame' = [frame EXCEPT ![c].steps = Append(@, "respond"), ![c].pc = "responded",
          ![c].response = [status |-> 200, body |-> frame[c].value, error |-> Undefined]]
    /\ UNCHANGED <<store, subCall, notifications, sendLog, nextId, dbFaults>>

\* controller: res.status(500).json({error: error.message})
RespondError(c) ==
    /\ frame[c].pc = "threw"
    /\ frame' = [frame EXCEPT ![c].steps = Append(@, "respond"), ![c].pc = "responded",
          ![c].response = [status |-> 500, body |-> None, error |-> frame[c].thrown]]
    /\ UNCHANGED <<store, subCall, notifications, sendLog, nextId, dbFaults>>

Next ==
    \E c \in CallIds :
        \/ LoadUser(c)
        \/ LoadTemplate(c)
        \/ LoadSubscription(c)
        \/ ResolveChannels(c)
        \/ ResolveLocale(c)
        \/ RenderContent(c)
        \/ EnterSendToChannel(c)
        \/ InsertNotification(c)
        \/ GetProvider(c)
        \/ DetermineRecipient(c)
        \/ ProviderSend(c)
        \/ UpdateNotificationStatus(c)
        \/ CollectResult(c)
        \/ ReturnResult(c)
        \/ RespondResult(c)
        \/ RespondError(c)

Spec == Init /\ [][Next]_vars

\* the same pipeline, started on the rendering scenarios
SpecRender == InitRender /\ [][Next]_vars

\* Two calls in flight at once.  The first one is for user u1 and template
\* welcome; the second one is for the same user and template, or for another
\* tenant's.
SecondCalls ==
    {NewFrame("t1", [userId |-> "u1", templateKey |-> "welcome",
                     variables |-> Some(("name" :> "Ana")), channels |-> o]) :
        o \in {None, Some(<<"EMAIL">>), Some(<<"SMS", "EMAIL">>)}}
    \cup
    {NewFrame("t2", [userId |-> "u2", templateKey |-> "promo",
                     variables |-> None, channels |-> None])}
ConcurrentScenarios ==
    {[BaseScenario EXCEPT !.override = o] : o \in {None, Some(<<"EMAIL">>)}}
InitConcurrent ==
    \E s \in ConcurrentScenarios : \E second \in SecondCalls : StartCalls(s, second)
SpecConcurrent == InitConcurrent /\ [][Next]_vars

\* The controller in front of the service: POST /notifications/send with a
\* body that has not been validated yet.  Strings that are UUIDs are the user
\* ids; channel tags are the members of DeliveryChannel or not.
IsUuid(str) == str \in UserIds
RequestBodies ==
    [userId : {None, Some("u1"), Some("u9"), Some("not-a-uuid")},
     templateKey : {None, Some("welcome"), Some("")},
     variables : {None, Some(("name" :> "Ana"))},
     channels : {None, Some(<<>>), Some(<<"EMAIL">>), Some(<<"EMAIL", "FAX">>)}]

\* Variant: the channels array is accepted whatever its tags are.
MutSafeParseAnyChannel(body) ==
    LET ok == /\ body.userId # None /\ IsUuid(body.userId[1])
              /\ body.templateKey # None
    IN  [success |-> ok,
         data |-> IF ok
                  THEN Some([userId |-> body.userId[1],
                             templateKey |-> body.templateKey[1],
                             variables |-> body.variables, channels |-> body.channels])
                  ELSE None]

\* sendNotificationSchema.safeParse(req.body)
SafeParse(body) ==
    LET ok == /\ body.userId # None /\ IsUuid(body.userId[1])
              /\ body.templateKey # None
              /\ body.channels # None => Range(body.channels[1]) \subseteq Channels
    IN  [success |-> ok,
         data |-> IF ok
                  THEN Some([userId |-> body.userId[1],
                             templateKey |-> body.templateKey[1],
                             variables |-> body.variables, channels |-> body.channels])
                  ELSE None]

\* The request has passed authenticateTenant and reaches the controller.
ReceivedFrame(tenantId, body) ==
    [IdleFrame EXCEPT !.pc = "validate", !.tenantId = tenantId, !.body = Some(body)]

\* controller: safeParse, 400 or the call of the service
ValidateBody(c) ==
    /\ frame[c].pc = "validate"
    /\ LET validation == SafeParse(frame[c].body[1])
       IN  IF ~validation.success
           THEN frame' = [frame EXCEPT ![c].steps = Append(@, "validate"),
                      ![c].pc = "responded",
                      ![c].response = [status |-> 400, body |-> None,
                                       error |-> "Invalid request"]]
           ELSE frame' = [frame EXCEPT ![c].steps = Append(@, "validate"),
                      ![c].pc = "loadUser", ![c].request = validation.data[1]]
    /\ UNCHANGED <<store, subCall, notifications, sendLog, nextId, dbFaults>>

InitController ==
    \E body \in RequestBodies :
        StartFrames(BaseScenario, ReceivedFrame("t1", body), IdleFrame)

NextController == Next \/ \E c \in CallIds : ValidateBody(c)

SpecController == InitController /\ [][NextController]_vars

\* The provider objects on their own: send is called on the object of any
\* channel, configured or not, as the providers' unit tests do.
Payloads ==
    {[to |-> "ana@example.com", title |-> Undefined, subject |-> "Welcome Ana",
      body |-> "Hi Ana"],
     [to |-> "apns-token", title |-> "Hola", subject |-> Undefined,
      body |-> "Hola Ana"]}

DirectSend(channel, payload, t) ==
    /\ Len(sendLog) < MaxSends
    /\ LET configured == channel \in providers
           outcome == SendOf(channel, configured, t)
       IN  sendLog' = Append(sendLog,
               [call |-> "direct", channel |-> channel, configured |-> configured,
                to |-> payload.to, body |-> payload.body,
                transport |-> IF outcome.calls = 0 THEN None ELSE Some(t),
                calls |-> outcome.calls, returns |-> outcome.returns,
                thrown |-> outcome.thrown])
    /\ UNCHANGED <<store, notifications, frame, nextId, dbFaults, subCall>>

InitProviders ==
    /\ providers \in ProviderTables
    /\ users = {} /\ templates = {} /\ subscriptions = {} /\ notifications = {}
    /\ frame = [c \in CallIds |-> IdleFrame]
    /\ sendLog = <<>>
    /\ nextId = 1
    /\ dbFaults = 0
    /\ subCall = IdleSubCall

NextProviders ==
    \E channel \in Channels : \E payload \in Payloads :
        \E t \in TransportOutcomes(channel) : DirectSend(channel, payload, t)

SpecProviders == InitProviders /\ [][NextProviders]_vars

-----------------------------------------------------------------------------
(* Subscription controller: PUT /users/:userId/subscriptions *)

\* request bodies: a field is <<>> when it is absent or not of the declared
\* type; the keys of channels are channel tags or not
UpdateBodies ==
    {[templateKey |-> Some(k), channels |-> Some(f)] :
        k \in TemplateKeys,
        f \in {("EMAIL" :> FALSE), ("SMS" :> TRUE) @@ ("APPLE_PUSH" :> TRUE)}}
    \cup {[templateKey |-> None, channels |-> Some(("EMAIL" :> FALSE))],
          [templateKey |-> Some("welcome"), channels |-> None],
          [templateKey |-> Some("welcome"), channels |-> Some(("FAX" :> TRUE))]}

\* updateSubscriptionSchema.safeParse(req.body).success
UpdateSubscriptionSchema(body) ==
    /\ body.templateKey # None
    /\ body.channels # None
    /\ DOMAIN body.channels[1] \subseteq Channels

\* rows of user_subscriptions WHERE user_id = $1 AND template_key = $2
SubscriptionsOf(userId, templateKey) ==
    {r \in subscriptions : r.user_id = userId /\ r.template_key = templateKey}

\* the catch of updateSubscription: res.status(500)
SubCallFailed == subCall' = [subCall EXCEPT !.pc = "responded", !.status = 500]

\* updateSubscription up to its first await: the tenant is the authenticated
\* one, the user id comes from the path; a body that fails the schema is
\* answered 400 before any query
ReceiveUpdateSubscription(tenantId, userId, body) ==
    /\ subCall.pc = "idle"
    /\ subCall' =
          IF ~UpdateSubscriptionSchema(body)
          THEN [subCall EXCEPT !.pc = "responded", !.op = "updateSubscription",
                               !.tenantId = tenantId, !.userId = userId,
                               !.status = 400]
          ELSE [subCall EXCEPT !.pc = "select", !.op = "updateSubscription",
                               !.tenantId = tenantId, !.userId = userId,
                               !.data = [templateKey |-> body.templateKey[1],
                                         channels |-> body.channels[1]]]
    /\ UNCHANGED <<store, notifications, frame, sendLog, nextId, dbFaults>>

\* SELECT id FROM user_subscriptions WHERE user_id = $1 AND template_key = $2
SelectExisting ==
    /\ subCall.pc = "select"
    /\ \E rejected \in BOOLEAN :
        /\ DbQuery(rejected)
        /\ IF rejected THEN SubCallFailed
           ELSE subCall' = [subCall EXCEPT
                    !.pc = "write",
                    !.existing = RowsOf(SubscriptionsOf(subCall.userId,
                                                        subCall.data.templateKey))]
    /\ UNCHANGED <<store, notifications, frame, sendLog, nextId>>

\* UPDATE user_subscriptions SET channels = $1 WHERE user_id = $2 AND template_key = $3
UpdateExisting ==
    /\ subCall.pc = "write"
    /\ Len(subCall.existing) > 0
    /\ \E rejected \in BOOLEAN :
        /\ DbQuery(rejected)
        /\ IF rejected
           THEN SubCallFailed /\ UNCHANGED subscriptions
           ELSE /\ subscriptions' =
                      {IF r \in SubscriptionsOf(subCall.userId, subCall.data.templateKey)
                       THEN [r EXCEPT !.channels = EntriesOf(subCall.data.channels)]
                       ELSE r : r \in subscriptions}
                /\ subCall' = [subCall EXCEPT !.pc = "responded", !.status = 200]
    /\ UNCHANGED <<providers, users, templates, notifications, frame, sendLog, nextId>>

\* INSERT INTO user_subscriptions (id, user_id, tenant_id, template_key, channels):
\* user_id references users(id), (user_id, template_key) is unique
InsertSubscription ==
    /\ subCall.pc = "write"
    /\ Len(subCall.existing) = 0
    /\ \E rejected \in BOOLEAN :
        /\ DbQuery(rejected)
        /\ IF \/ rejected
              \/ ~\E u \in users : u.id = subCall.userId
              \/ SubscriptionsOf(subCall.userId, subCall.data.templateKey) # {}
           THEN SubCallFailed /\ UNCHANGED subscriptions
           ELSE /\ subscriptions' = subscriptions \cup
                      {[user_id |-> subCall.userId, tenant_id |-> subCall.tenantId,
                        template_key |-> subCall.data.templateKey,
                        channels |-> EntriesOf(subCall.data.channels)]}
                /\ subCall' = [subCall EXCEPT !.pc = "responded", !.status = 201]
    /\ UNCHANGED <<providers, users, templates, notifications, frame, sendLog, nextId>>

-----------------------------------------------------------------------------
(* The other handlers of the API that write to the tables a dispatch reads *)

\* the response of a handler that answers after a single query
Responded(op, tenantId, status) ==
    subCall' = [IdleSubCall EXCEPT !.pc = "responded", !.op = op,
                                   !.tenantId = tenantId, !.status = status]

\* deleteSubscription: DELETE FROM user_subscriptions WHERE user_id = $1 AND
\* template_key = $2 AND tenant_id = $3 RETURNING id
DeleteSubscription(tenantId, userId, templateKey) ==
    /\ subCall.pc = "idle"
    /\ \E rejected \in BOOLEAN :
        /\ DbQuery(rejected)
        /\ LET deleted == {r \in subscriptions : /\ r.user_id = userId
                                                 /\ r.template_key = templateKey
                                                 /\ r.tenant_id = tenantId}
           IN  IF rejected
               THEN /\ Responded("deleteSubscription", tenantId, 500)
                    /\ UNCHANGED subscriptions
               ELSE /\ subscriptions' = subscriptions \ deleted
                    /\ Responded("deleteSubscription", tenantId,
                                 IF deleted = {} THEN 404 ELSE 204)
    /\ UNCHANGED <<providers, users, templates, notifications, frame, sendLog, nextId>>

\* Request bodies of the template handlers: every field present or absent.
NoTemplateFields ==
    [key |-> None, name |-> None, description |-> None, channels |-> None,
     translations |-> None]
CreateTemplateBodies ==
    {[NoTemplateFields EXCEPT !.key = Some(k), !.name = Some("Promotion"),
                              !.channels = Some(<<"SMS">>),
                              !.translations = Some((DefaultLocale :> EnContent))] :
        k \in TemplateKeys}
    \cup {[NoTemplateFields EXCEPT !.key = Some("promo"), !.channels = Some(<<"SMS">>)]}
UpdateTemplateBodies ==
    {NoTemplateFields,
     [NoTemplateFields EXCEPT !.name = Some("")],
     [NoTemplateFields EXCEPT !.name = Some("Renamed"), !.description = Some("")],
     [NoTemplateFields EXCEPT !.channels = Some(<<"SMS">>)],
     [NoTemplateFields EXCEPT !.channels = Some(<<>>)],
     [NoTemplateFields EXCEPT !.channels = Some(<<"FAX">>)],
     [NoTemplateFields EXCEPT !.translations = Some(("es-ES" :> EsContent))]}

\* createTemplateSchema.partial().safeParse(body).success: the fields that are
\* present have the declared types
PartialTemplateSchema(body) ==
    /\ body.channels # None => Range(body.channels[1]) \subseteq Channels
    /\ body.translations # None =>
          \A l \in DOMAIN body.translations[1] : body.translations[1][l].body # None

\* createTemplateSchema.safeParse(body).success
CreateTemplateSchema(body) ==
    /\ body.key # None /\ body.name # None
    /\ body.channels # None /\ body.translations # None
    /\ PartialTemplateSchema(body)

\* rows of notification_templates WHERE tenant_id = $1 AND key = $2
TemplatesOf(tenantId, key) ==
    {t \in templates : t.tenant_id = tenantId /\ t.key = key}

\* createTemplate up to its second await: validation, then INSERT INTO
\* notification_templates; (tenant_id, key) is unique, error code 23505 is
\* answered 409 and any other rejection 500
CreateTemplate(tenantId, body) ==
    /\ subCall.pc = "idle"
    /\ IF ~CreateTemplateSchema(body)
       THEN /\ Responded("createTemplate", tenantId, 400)
            /\ UNCHANGED <<templates, dbFaults>>
       ELSE \E rejected \in BOOLEAN :
              /\ DbQuery(rejected)
              /\ IF rejected
                 THEN /\ Responded("createTemplate", tenantId, 500)
                      /\ UNCHANGED templates
                 ELSE IF TemplatesOf(tenantId, body.key[1]) # {}
                 THEN /\ Responded("createTemplate", tenantId, 409)
                      /\ UNCHANGED templates
                 ELSE /\ templates' = templates \cup
                            {[tenant_id |-> tenantId, key |-> body.key[1],
                              name |-> body.name[1],
                              description |-> IF body.description = None THEN Undefined
                                              ELSE body.description[1],
                              channels |-> body.channels[1],
                              translations |-> body.translations[1]]}
                      /\ subCall' = [IdleSubCall EXCEPT !.pc = "readBack",
                                                        !.op = "createTemplate",
                                                        !.tenantId = tenantId]
    /\ UNCHANGED <<providers, users, subscriptions, notifications, frame, sendLog, nextId>>

\* the fields an update request sets
TemplateUpdates(data) ==
    {f \in {"description", "channels", "translations"} : data[f] # None}
    \cup (IF data.name # None /\ Truthy(data.name[1]) THEN {"name"} ELSE {})

\* updateTemplate: UPDATE notification_templates SET ... WHERE tenant_id = $n
\* AND key = $n+1 RETURNING *
UpdateTemplate(tenantId, key, body) ==
    /\ subCall.pc = "idle"
    /\ IF ~PartialTemplateSchema(body) \/ TemplateUpdates(body) = {}
       THEN /\ Responded("updateTemplate", tenantId, 400)
            /\ UNCHANGED <<templates, dbFaults>>
       ELSE \E rejected \in BOOLEAN :
              /\ DbQuery(rejected)
              /\ IF rejected
                 THEN /\ Responded("updateTemplate", tenantId, 500)
                      /\ UNCHANGED templates
                 ELSE /\ templates' =
                            {IF t \in TemplatesOf(tenantId, key)
                             THEN [f \in DOMAIN t |->
                                      IF f \in TemplateUpdates(body) THEN body[f][1]
                                      ELSE t[f]]
                             ELSE t : t \in templates}
                      /\ Responded("updateTemplate", tenantId,
                                   IF TemplatesOf(tenantId, key) = {} THEN 404 ELSE 200)
    /\ UNCHANGED <<providers, users, subscriptions, notifications, frame, sendLog, nextId>>

\* deleteTemplate: DELETE FROM notification_templates WHERE tenant_id = $1 AND
\* key = $2 RETURNING id
DeleteTemplate(tenantId, key) ==
    /\ subCall.pc = "idle"
    /\ \E rejected \in BOOLEAN :
        /\ DbQuery(rejected)
        /\ IF rejected
           THEN /\ Responded("deleteTemplate", tenantId, 500)
                /\ UNCHANGED templates
           ELSE /\ templates' = templates \ TemplatesOf(tenantId, key)
                /\ Responded("deleteTemplate", tenantId,
                             IF TemplatesOf(tenantId, key) = {} THEN 404 ELSE 204)
    /\ UNCHANGED <<providers, users, subscriptions, notifications, frame, sendLog, nextId>>

\* Request bodies of the user controller: every field present or absent.
\* LongTimezone has more than the 50 characters of its column.
LongTimezone == "America/Argentina/ComodRivadavia/America/Argentina/Buenos_Aires"
NoUserFields ==
    [email |-> None, phoneNumber |-> None, locale |-> None, timezone |-> None,
     apnsDeviceToken |-> None, fcmDeviceToken |-> None]
CreateUserBodies ==
    {NoUserFields,
     [NoUserFields EXCEPT !.email = Some("ana@example.com")],
     [NoUserFields EXCEPT !.email = Some("bob@example.com"), !.locale = Some("es-ES")],
     [NoUserFields EXCEPT !.email = Some("not-an-email")],
     [NoUserFields EXCEPT !.phoneNumber = Some("+14155550100"), !.locale = Some("valueOf")],
     [NoUserFields EXCEPT !.locale = Some("en-US-posix")]}
UpdateUserBodies ==
    {NoUserFields,
     [NoUserFields EXCEPT !.locale = Some("")],
     [NoUserFields EXCEPT !.email = Some("not-an-email")],
     [NoUserFields EXCEPT !.email = Some("bob@example.com")],
     [NoUserFields EXCEPT !.locale = Some("toString"), !.timezone = Some("UTC")],
     [NoUserFields EXCEPT !.locale = Some("en-US-posix")],
     [NoUserFields EXCEPT !.phoneNumber = Some("")],
     [NoUserFields EXCEPT !.timezone = Some(LongTimezone)],
     [NoUserFields EXCEPT !.apnsDeviceToken = Some(""), !.fcmDeviceToken = Some("fcm-2")]}

\* every character of s is one of chars
AllIn(s, chars) == \A k \in 1..Len(s) : IndexIn(SubSeq(s, k, k), chars) # 0

\* z.string().email(): the pattern
\*   ^(?!\.)(?!.*\.\.)([A-Z0-9_'+\-\.]*)[A-Z0-9_+-]@([A-Z0-9][A-Z0-9\-]*\.)+[A-Z]{2,}$
\* without regard to case: no dot first, no two dots in a row, a local part
\* that does not end in a dot or an apostrophe, one "@", domain labels that
\* start with a letter or a digit, and a last label of two letters or more
IsEmail(s) ==
    /\ SubSeq(s, 1, 1) # "."
    /\ ~\E k \in 1..(Len(s) - 1) : SubSeq(s, k, k + 1) = ".."
    /\ \E at \in 2..(Len(s) - 1) :
        LET domain == SubSeq(s, at + 1, Len(s))
        IN  /\ SubSeq(s, at, at) = "@"
            /\ AllIn(SubSeq(s, 1, at - 1), AsciiLower \o AsciiUpper \o Digits \o "_'+-.")
            /\ AllIn(SubSeq(s, at - 1, at - 1), AsciiLower \o AsciiUpper \o Digits \o "_+-")
            /\ AllIn(domain, AsciiLower \o AsciiUpper \o Digits \o "-.")
            /\ AllIn(SubSeq(domain, 1, 1), AsciiLower \o AsciiUpper \o Digits)
            /\ \A k \in 1..(Len(domain) - 1) :
                  SubSeq(domain, k, k) = "." =>
                      AllIn(SubSeq(domain, k + 1, k + 1), AsciiLower \o AsciiUpper \o Digits)
            /\ \E dot \in 2..(Len(domain) - 2) :
                  /\ SubSeq(domain, dot, dot) = "."
                  /\ AllIn(SubSeq(domain, dot + 1, Len(domain)), AsciiLower \o AsciiUpper)

\* createUserSchema.partial().safeParse(body).success
PartialUserSchema(body) == body.email # None => IsEmail(body.email[1])

\* a request field that is present and truthy
Given(field) == field # None /\ Truthy(field[1])

\* value || null, as a column
OrNull(field) == IF Given(field) THEN field ELSE None

\* what PostgreSQL refuses in a row of users: a text longer than its column,
\* VARCHAR(255) for email, VARCHAR(50) for phone_number and timezone and
\* VARCHAR(10) for locale (22001; the texts here do not end in spaces), or an
\* email or phone number another user of the tenant has (23505); NULL equals
\* no value, the empty text equals the empty text
ValueTooLong(row) ==
    \/ Len(Text(row.email)) > 255
    \/ Len(Text(row.phone_number)) > 50
    \/ Len(row.locale) > 10
    \/ Len(Text(row.timezone)) > 50
UniqueViolation(row, others) ==
    \E u \in others :
        /\ u.tenant_id = row.tenant_id
        /\ \/ row.email # None /\ u.email = row.email
           \/ row.phone_number # None /\ u.phone_number = row.phone_number

\* the id a new user gets from uuidv4() or from the column default: one no
\* row has
NewUserId == "u9"

\* createUser of the user controller up to its second await: validation, then
\* INSERT INTO users; error code 23505 is answered 409 and any other
\* rejection 500
CreateUser(tenantId, body) ==
    /\ subCall.pc = "idle"
    /\ ~\E u \in users : u.id = NewUserId
    /\ IF ~PartialUserSchema(body)
       THEN /\ Responded("createUser", tenantId, 400)
            /\ UNCHANGED <<users, dbFaults>>
       ELSE \E rejected \in BOOLEAN :
              /\ DbQuery(rejected)
              /\ LET row == [id |-> NewUserId, tenant_id |-> tenantId,
                             email |-> OrNull(body.email),
                             phone_number |-> OrNull(body.phoneNumber),
                             locale |-> IF body.locale = None THEN DefaultLocale
                                        ELSE body.locale[1],
                             timezone |-> OrNull(body.timezone),
                             apns_device_token |-> OrNull(body.apnsDeviceToken),
                             fcm_device_token |-> OrNull(body.fcmDeviceToken)]
                 IN  IF rejected \/ ValueTooLong(row)
                     THEN /\ Responded("createUser", tenantId, 500)
                          /\ UNCHANGED users
                     ELSE IF UniqueViolation(row, users)
                     THEN /\ Responded("createUser", tenantId, 409)
                          /\ UNCHANGED users
                     ELSE /\ users' = users \cup {row}
                          /\ subCall' = [IdleSubCall EXCEPT !.pc = "readBack",
                                                            !.op = "createUser",
                                                            !.tenantId = tenantId]
    /\ UNCHANGED <<providers, templates, subscriptions, notifications, frame, sendLog, nextId>>

\* createTemplate and createUser after the INSERT: SELECT * FROM ... WHERE
\* id = $1, then res.status(201)
ReadBack ==
    /\ subCall.pc = "readBack"
    /\ \E rejected \in BOOLEAN :
        /\ DbQuery(rejected)
        /\ subCall' = [subCall EXCEPT !.pc = "responded",
                                      !.status = IF rejected THEN 500 ELSE 201]
    /\ UNCHANGED <<store, notifications, frame, sendLog, nextId>>

\* the columns an update request sets, and the row it makes of row u: a field
\* that is present is stored as it is, the empty text included
UserUpdates(data) ==
    {f \in {"email", "phoneNumber", "timezone", "apnsDeviceToken", "fcmDeviceToken"} :
        data[f] # None}
    \cup (IF Given(data.locale) THEN {"locale"} ELSE {})
UpdatedUser(u, data) ==
    LET set(column, f) == IF f \in UserUpdates(data) THEN data[f] ELSE u[column]
    IN  [id |-> u.id, tenant_id |-> u.tenant_id,
         email |-> set("email", "email"),
         phone_number |-> set("phone_number", "phoneNumber"),
         locale |-> IF "locale" \in UserUpdates(data) THEN data.locale[1] ELSE u.locale,
         timezone |-> set("timezone", "timezone"),
         apns_device_token |-> set("apns_device_token", "apnsDeviceToken"),
         fcm_device_token |-> set("fcm_device_token", "fcmDeviceToken")]

\* rows of users WHERE id = $1 AND tenant_id = $2
UsersOf(id, tenantId) == {u \in users : u.id = id /\ u.tenant_id = tenantId}

\* updateUser of the user controller: UPDATE users SET ... WHERE id = $n AND
\* tenant_id = $n+1 RETURNING *; every rejection is answered 500
UpdateUser(tenantId, id, body) ==
    /\ subCall.pc = "idle"
    /\ IF ~PartialUserSchema(body) \/ UserUpdates(body) = {}
       THEN /\ Responded("updateUser", tenantId, 400)
            /\ UNCHANGED <<users, dbFaults>>
       ELSE \E rejected \in BOOLEAN :
              /\ DbQuery(rejected)
              /\ LET old == UsersOf(id, tenantId)
                     new == {UpdatedUser(u, body) : u \in old}
                 IN  IF \/ rejected
                        \/ \E row \in new : \/ ValueTooLong(row)
                                            \/ UniqueViolation(row, users \ old)
                     THEN /\ Responded("updateUser", tenantId, 500)
                          /\ UNCHANGED users
                     ELSE /\ users' = (users \ old) \cup new
                          /\ Responded("updateUser", tenantId,
                                       IF old = {} THEN 404 ELSE 200)
    /\ UNCHANGED <<providers, templates, subscriptions, notifications, frame, sendLog, nextId>>

\* Request bodies of the handlers of controllers/users.ts, which pass the
\* body to UserService as it is: every field present or absent.
NoRequestFields ==
    [email |-> None, phoneNumber |-> None, locale |-> None, timezone |-> None,
     apnsTokens |-> None, fcmTokens |-> None]
UserRequests ==
    {NoRequestFields,
     [NoRequestFields EXCEPT !.apnsTokens = Some(<<"apns-2">>), !.locale = Some("")],
     [NoRequestFields EXCEPT !.fcmTokens = Some(<<>>), !.timezone = Some(LongTimezone)],
     [NoRequestFields EXCEPT !.email = Some("ana@example.com")],
     [NoRequestFields EXCEPT !.email = Some("newuser@example.com"),
                             !.locale = Some("es-ES"), !.timezone = Some("")],
     [NoRequestFields EXCEPT !.email = Some("invalid-email")],
     [NoRequestFields EXCEPT !.email = Some(""), !.phoneNumber = Some("+1 415 555 2671")],
     [NoRequestFields EXCEPT !.phoneNumber = Some("+14155552671"),
                             !.locale = Some("valueOf")],
     [NoRequestFields EXCEPT !.phoneNumber = Some("415-555-2671")],
     [NoRequestFields EXCEPT !.locale = Some("toString")]}

\* validator.isEmail on the strings the handlers are given here: a string
\* without "@" is no address, lower-case letters before @example.com are one
ValidatorIsEmail(s) ==
    CASE IndexIn("@", s) = 0 -> FALSE
      [] /\ Len(s) > 12
         /\ SubSeq(s, Len(s) - 11, Len(s)) = "@example.com"
         /\ AllIn(SubSeq(s, 1, Len(s) - 12), AsciiLower) -> TRUE

\* parsePhoneNumber(s).number: the number in E.164, without the spaces,
\* hyphens, dots and parentheses it is written with
RECURSIVE E164From(_, _)
E164From(s, k) ==
    IF k > Len(s) THEN ""
    ELSE (IF SubSeq(s, k, k) \in {" ", "-", ".", "(", ")"} THEN "" ELSE SubSeq(s, k, k))
             \o E164From(s, k + 1)

\* isValidPhoneNumber(s) without a default country, on the strings the
\* handlers are given here: a number that does not start with "+" names no
\* country, +1 415 555 2671 is a number of the United States
IsValidPhoneNumber(s) ==
    CASE SubSeq(s, 1, 1) # "+" -> FALSE
      [] E164From(s, 1) = "+14155552671" -> TRUE

\* /^[a-z]{2}-[A-Z]{2}$/.test(s)
IsLocaleFormat(s) ==
    /\ Len(s) = 5
    /\ AllIn(SubSeq(s, 1, 2), AsciiLower)
    /\ SubSeq(s, 3, 3) = "-"
    /\ AllIn(SubSeq(s, 4, 5), AsciiUpper)

\* the checks of UserService on the contact fields and on the locale
InvalidContact(request) ==
    \/ Given(request.email) /\ ~ValidatorIsEmail(request.email[1])
    \/ Given(request.phoneNumber) /\ ~IsValidPhoneNumber(request.phoneNumber[1])
InvalidLocale(request) == Given(request.locale) /\ ~IsLocaleFormat(request.locale[1])

\* normalizedPhone
NormalizedPhone(request) ==
    IF Given(request.phoneNumber) THEN Some(E164From(request.phoneNumber[1], 1)) ELSE None

\* the response of the handlers of controllers/users.ts
Answered(call, status) == [call EXCEPT !.pc = "responded", !.status = status]

\* POST /users of controllers/users.ts: UserService.createUser up to its
\* first await.  A request without a contact method, with an address or a
\* number that is not valid is answered 400; the format of the locale is
\* looked at after the SELECT for duplicates, which is skipped when neither
\* an email nor a phone number is given.
UserServiceCreateUser(tenantId, request) ==
    /\ subCall.pc = "idle"
    /\ LET call == [IdleSubCall EXCEPT !.op = "UserService.createUser",
                                       !.tenantId = tenantId, !.data = request]
           hasContactMethod ==
               \/ Given(request.email) \/ Given(request.phoneNumber)
               \/ request.apnsTokens # None /\ Len(request.apnsTokens[1]) > 0
               \/ request.fcmTokens # None /\ Len(request.fcmTokens[1]) > 0
       IN  subCall' =
             IF ~hasContactMethod \/ InvalidContact(request) THEN Answered(call, 400)
             ELSE IF Given(request.email) \/ Given(request.phoneNumber)
             THEN [call EXCEPT !.pc = "findDuplicate"]
             ELSE IF InvalidLocale(request) THEN Answered(call, 400)
             ELSE [call EXCEPT !.pc = "writeUser"]
    /\ UNCHANGED <<store, notifications, frame, sendLog, nextId, dbFaults>>

\* PUT /users/:id of controllers/users.ts: UserService.updateUser up to its
\* first await; here the format of the locale is looked at before the SELECT
UserServiceUpdateUser(tenantId, id, request) ==
    /\ subCall.pc = "idle"
    /\ LET call == [IdleSubCall EXCEPT !.op = "UserService.updateUser",
                                       !.tenantId = tenantId, !.userId = id,
                                       !.data = request]
       IN  subCall' =
             IF InvalidContact(request) \/ InvalidLocale(request) THEN Answered(call, 400)
             ELSE IF Given(request.email) \/ Given(request.phoneNumber)
             THEN [call EXCEPT !.pc = "findDuplicate"]
             ELSE [call EXCEPT !.pc = "writeUser"]
    /\ UNCHANGED <<store, notifications, frame, sendLog, nextId, dbFaults>>

\* SELECT ... FROM users WHERE tenant_id = $1 AND (email = $2 OR phone_number
\* = $3) LIMIT 1: any one of the rows that match.  A row found is answered
\* 409, unless it is the row that updateUser updates.
FindDuplicate ==
    /\ subCall.pc = "findDuplicate"
    /\ \E rejected \in BOOLEAN :
        /\ DbQuery(rejected)
        /\ LET request == subCall.data
               found == {u \in users :
                           /\ u.tenant_id = subCall.tenantId
                           /\ \/ Given(request.email) /\ u.email = request.email
                              \/ /\ NormalizedPhone(request) # None
                                 /\ u.phone_number = NormalizedPhone(request)}
           IN  IF rejected THEN SubCallFailed
               ELSE \E existingUser \in IF found = {} THEN {None}
                                        ELSE {Some(u) : u \in found} :
                      subCall' =
                        IF /\ existingUser # None
                           /\ \/ subCall.op = "UserService.createUser"
                              \/ existingUser[1].id # subCall.userId
                        THEN Answered(subCall, 409)
                        ELSE IF /\ subCall.op = "UserService.createUser"
                                /\ InvalidLocale(request)
                        THEN Answered(subCall, 400)
                        ELSE [subCall EXCEPT !.pc = "writeUser"]
    /\ UNCHANGED <<store, notifications, frame, sendLog, nextId>>

\* UserService.createUser: INSERT INTO users ... RETURNING; the table has no
\* column for the device tokens of the request
InsertUser ==
    /\ subCall.pc = "writeUser"
    /\ subCall.op = "UserService.createUser"
    /\ ~\E u \in users : u.id = NewUserId
    /\ \E rejected \in BOOLEAN :
        /\ DbQuery(rejected)
        /\ LET request == subCall.data
               row == [id |-> NewUserId, tenant_id |-> subCall.tenantId,
                       email |-> OrNull(request.email),
                       phone_number |-> NormalizedPhone(request),
                       locale |-> IF Given(request.locale) THEN request.locale[1]
                                  ELSE DefaultLocale,
                       timezone |-> OrNull(request.timezone),
                       apns_device_token |-> None, fcm_device_token |-> None]
           IN  IF rejected \/ ValueTooLong(row) \/ UniqueViolation(row, users)
               THEN SubCallFailed /\ UNCHANGED users
               ELSE /\ users' = users \cup {row}
                    /\ subCall' = Answered(subCall, 201)
    /\ UNCHANGED <<providers, templates, subscriptions, notifications, frame, sendLog, nextId>>

\* UserService.updateUser: UPDATE users SET ... WHERE id = $n AND tenant_id =
\* $n+1 RETURNING; no row is answered 404
UpdateUserRow ==
    /\ subCall.pc = "writeUser"
    /\ subCall.op = "UserService.updateUser"
    /\ \E rejected \in BOOLEAN :
        /\ DbQuery(rejected)
        /\ LET request == subCall.data
               old == UsersOf(subCall.userId, subCall.tenantId)
               new == {[u EXCEPT
                          !.email = IF request.email # None
                                    THEN OrNull(request.email) ELSE @,
                          !.phone_number = IF NormalizedPhone(request) # None
                                           THEN NormalizedPhone(request) ELSE @,
                          !.locale = IF request.locale # None
                                     THEN request.locale[1] ELSE @,
                          !.timezone = IF request.timezone # None
                                       THEN OrNull(request.timezone) ELSE @] :
                       u \in old}
           IN  IF \/ rejected
                  \/ \E row \in new : \/ ValueTooLong(row)
                                      \/ UniqueViolation(row, users \ old)
               THEN SubCallFailed /\ UNCHANGED users
               ELSE /\ users' = (users \ old) \cup new
                    /\ subCall' = Answered(subCall, IF old = {} THEN 404 ELSE 200)
    /\ UNCHANGED <<providers, templates, subscriptions, notifications, frame, sendLog, nextId>>

\* deleteUser: DELETE FROM users WHERE id = $1 AND tenant_id = $2 RETURNING *;
\* the rows of user_subscriptions and notifications that reference the user
\* go with it (ON DELETE CASCADE)
DeleteUser(tenantId, id) ==
    /\ subCall.pc = "idle"
    /\ \E rejected \in BOOLEAN :
        /\ DbQuery(rejected)
        /\ LET deleted == {u.id : u \in UsersOf(id, tenantId)}
           IN  IF rejected
               THEN /\ Responded("deleteUser", tenantId, 500)
                    /\ UNCHANGED <<users, subscriptions, notifications>>
               ELSE /\ users' = {u \in users : u.id \notin deleted}
                    /\ subscriptions' = {r \in subscriptions : r.user_id \notin deleted}
                    /\ notifications' = {n \in notifications : n.user_id \notin deleted}
                    /\ Responded("deleteUser", tenantId,
                                 IF deleted = {} THEN 404 ELSE 204)
    /\ UNCHANGED <<providers, templates, frame, sendLog, nextId>>

-----------------------------------------------------------------------------
(* One dispatch next to one request of any tenant to another handler *)

\* Dispatch calls of either tenant for every user id and template key, with a
\* consent record of the first tenant's user, and with a second user of the
\* first tenant whose phone number an earlier updateUser has set to the empty
\* text.
TenantScenarios ==
    {[BaseScenario EXCEPT !.tenantId = tn, !.userId = u, !.templateKey = k,
                          !.consent = Some(EntriesOf(("EMAIL" :> TRUE) @@ ("SMS" :> FALSE))),
                          !.stored = {[UserRow("u3", "t1", DefaultLocale, {})
                                          EXCEPT !.phone_number = Some("")]}] :
        tn \in Tenants, u \in UserIds, k \in TemplateKeys}

InitTenants == \E s \in TenantScenarios : Start(s)

\* one dispatch call and one call of another handler by any tenant, interleaved
NextTenants ==
    \/ Next
    \/ \E tn \in Tenants, u \in UserIds, data \in UpdateBodies :
          ReceiveUpdateSubscription(tn, u, data)
    \/ SelectExisting
    \/ UpdateExisting
    \/ InsertSubscription
    \/ \E tn \in Tenants, u \in UserIds, k \in TemplateKeys : DeleteSubscription(tn, u, k)
    \/ \E tn \in Tenants, body \in CreateTemplateBodies : CreateTemplate(tn, body)
    \/ \E tn \in Tenants, k \in TemplateKeys, body \in UpdateTemplateBodies :
          UpdateTemplate(tn, k, body)
    \/ \E tn \in Tenants, k \in TemplateKeys : DeleteTemplate(tn, k)
    \/ \E tn \in Tenants, body \in CreateUserBodies : CreateUser(tn, body)
    \/ ReadBack
    \/ \E tn \in Tenants, u \in UserIds, body \in UpdateUserBodies : UpdateUser(tn, u, body)
    \/ \E tn \in Tenants, u \in UserIds : DeleteUser(tn, u)
    \/ \E tn \in Tenants, request \in UserRequests : UserServiceCreateUser(tn, request)
    \/ \E tn \in Tenants, u \in UserIds, request \in UserRequests :
          UserServiceUpdateUser(tn, u, request)
    \/ FindDuplicate
    \/ InsertUser
    \/ UpdateUserRow

SpecTenants == InitTenants /\ [][NextTenants]_vars

-----------------------------------------------------------------------------
(* Vocabulary of the properties *)

Last(s) == s[Len(s)]

\* sendNotification has returned a value / has thrown
Returned(c) == frame[c].value # None
Threw(c) == frame[c].thrown # Undefined
Finished(c) == Returned(c) \/ Threw(c)
Did(c, step) == step \in Range(frame[c].steps)

\* the request's channel override, <<>> when there is none
Override(c) ==
    IF frame[c].request.channels = None THEN <<>> ELSE frame[c].request.channels[1]
HasOverride(c) == Override(c) # <<>>

\* what the database holds for the call's arguments
UserInTenant(c) ==
    \E u \in users : u.id = frame[c].request.userId /\ u.tenant_id = frame[c].tenantId
TemplatesInTenant(c) ==
    {t \in templates : t.tenant_id = frame[c].tenantId /\ t.key = frame[c].request.templateKey}
ConsentRecords(c) ==
    {r \in subscriptions : /\ r.user_id = frame[c].request.userId
                           /\ r.template_key = frame[c].request.templateKey}
EnabledIn(r) == {e.channel : e \in {x \in Range(r.channels) : x.enabled}}

\* delivery records created by the call, provider sends made by the call
RecordsOf(c) == {n \in notifications : n.id \in frame[c].created}
SendsOf(c) == {k \in DOMAIN sendLog : sendLog[k].call = c}

UserNotFound == "Failed to send notification: User not found"
TemplateNotFound == "Failed to send notification: Template not found"
ContentUnavailable == "Failed to send notification: No translation available for user locale"
DbFailure == "Failed to send notification: db error"

-----------------------------------------------------------------------------
(* Properties *)

\* C1 (as claimed): per-channel failure isolation.  Once the per-channel loop
\* has started the call does not throw, and when it returns every channel of
\* the resolved list has been attempted and has its own delivery record.
C1_FailureIsolation ==
    \A c \in CallIds :
        /\ Threw(c) => frame[c].attempted = <<>>
        /\ Returned(c) =>
              /\ frame[c].attempted = frame[c].channels
              /\ Cardinality(RecordsOf(c)) = Len(frame[c].channels)

\* C2: a returned result has success = TRUE exactly when one of the call's
\* delivery records is SENT, which is exactly when notificationIds is non-empty.
C2_SuccessIffSent ==
    \A c \in CallIds :
        Returned(c) =>
            LET v == frame[c].value[1]
            IN  /\ v.success <=> (\E n \in RecordsOf(c) : n.status = SENT)
                /\ v.success <=> (v.notificationIds # <<>>)

\* C2 witness: a returned result with a delivered channel and a failed one.
C2_Witness ==
    \E c \in CallIds :
        /\ Returned(c)
        /\ frame[c].value[1].success
        /\ frame[c].value[1].errors # None

\* C3: with a non-empty override the resolved list is the override, the
\* channels attempted are always a prefix of it, and all of it once the call
\* has returned, whatever the consent record and the template declare.
C3_OverrideVerbatim ==
    \A c \in CallIds :
        HasOverride(c) =>
            /\ Did(c, "resolveChannels") => frame[c].channels = Override(c)
            /\ frame[c].attempted = SubSeq(Override(c), 1, Len(frame[c].attempted))
            /\ Returned(c) => frame[c].attempted = Override(c)

\* C3 witness: override [SMS] for a user whose consent record sets SMS to
\* false; SMS, and only SMS, was attempted.
C3_Witness ==
    \E c \in CallIds :
        /\ Returned(c)
        /\ Override(c) = <<"SMS">>
        /\ frame[c].attempted = <<"SMS">>
        /\ \E r \in ConsentRecords(c) : "SMS" \notin EnabledIn(r)
                                        /\ "SMS" \in {e.channel : e \in Range(r.channels)}

\* C4: without override and with a consent record, the resolved channels are
\* exactly the channels whose flag is true; nothing else is ever attempted and
\* all of them are once the call has returned.
C4_ConsentResolution ==
    \A c \in CallIds :
        (~HasOverride(c) /\ Did(c, "resolveChannels")) =>
            \A r \in ConsentRecords(c) :
                /\ Range(frame[c].channels) = EnabledIn(r)
                /\ Range(frame[c].attempted) \subseteq EnabledIn(r)
                /\ Returned(c) => Range(frame[c].attempted) = EnabledIn(r)

\* C4 witness: the template declares SMS, the consent record sets SMS to false
\* and EMAIL to true; the call returned having attempted EMAIL only.
C4_Witness ==
    \E c \in CallIds :
        /\ Returned(c)
        /\ ~HasOverride(c)
        /\ \E t \in TemplatesInTenant(c) : "SMS" \in Range(t.channels)
        /\ \E r \in ConsentRecords(c) :
              /\ [channel |-> "SMS", enabled |-> FALSE] \in Range(r.channels)
              /\ EnabledIn(r) = {"EMAIL"}
        /\ frame[c].attempted = <<"EMAIL">>

\* C5: without override and without consent record, the resolved list is the
\* template's declared list, and it is what has been attempted once the call
\* has returned.
C5_DefaultResolution ==
    \A c \in CallIds :
        (~HasOverride(c) /\ ConsentRecords(c) = {} /\ Did(c, "resolveChannels")) =>
            \A t \in TemplatesInTenant(c) :
                /\ frame[c].channels = t.channels
                /\ Returned(c) => frame[c].attempted = t.channels

\* C5 witness: a returned call without override and consent record that
\* attempted two declared channels.
C5_Witness ==
    \E c \in CallIds :
        /\ Returned(c)
        /\ ~HasOverride(c)
        /\ ConsentRecords(c) = {}
        /\ Len(frame[c].attempted) = 2
        /\ \E t \in TemplatesInTenant(c) : frame[c].attempted = t.channels

\* C6 (as claimed): the translation used is the entry for the user's locale
\* when the template has one, otherwise the en-US entry; without either the
\* call fails.
C6_LocaleResolution ==
    \A c \in CallIds :
        Did(c, "resolveLocale") =>
            LET translations == frame[c].templateRows[1].translations
                locale == frame[c].userRows[1].locale
            IN  IF locale \in DOMAIN translations
                THEN frame[c].translation = Some(translations[locale])
                ELSE IF DefaultLocale \in DOMAIN translations
                THEN frame[c].translation = Some(translations[DefaultLocale])
                ELSE frame[c].thrown = ContentUnavailable

\* a call that failed with user-not-found, template-not-found,
\* no-translation-available or a render error
TerminalError(c) ==
    \/ frame[c].thrown \in {UserNotFound, TemplateNotFound, ContentUnavailable}
    \/ Threw(c) /\ frame[c].thrown # DbFailure /\ Did(c, "render")

\* C7: a call that failed with a terminal error has created no delivery
\* record, entered no channel and invoked no provider.
C7_TerminalErrorsLeaveNoTrace ==
    \A c \in CallIds :
        TerminalError(c) =>
            /\ frame[c].created = {}
            /\ frame[c].attempted = <<>>
            /\ SendsOf(c) = {}
            /\ ~\E n \in notifications :
                    /\ n.tenant_id = frame[c].tenantId
                    /\ n.user_id = frame[c].request.userId
                    /\ n.template_key = frame[c].request.templateKey

\* C7 witness: a call that failed with a render error after its channels were
\* resolved to a non-empty list.
C7_Witness ==
    \E c \in CallIds :
        /\ Threw(c)
        /\ Last(frame[c].steps) = "render"
        /\ frame[c].channels # <<>>

\* C8: the message thrown names the cause.  A user missing from the tenant
\* gives UserNotFound with nothing loaded after the user query; a missing
\* template gives TemplateNotFound; a missing translation and a render error
\* give two further, different messages.
C8_TypedLookupFailures ==
    \A c \in CallIds :
        /\ (Threw(c) /\ frame[c].thrown # DbFailure) =>
              /\ frame[c].thrown = UserNotFound <=> ~UserInTenant(c)
              /\ frame[c].thrown = TemplateNotFound <=>
                    (UserInTenant(c) /\ TemplatesInTenant(c) = {})
              /\ frame[c].thrown = ContentUnavailable <=>
                    (Did(c, "resolveLocale") /\ ~Did(c, "render"))
              /\ frame[c].thrown \notin {UserNotFound, TemplateNotFound, ContentUnavailable}
                    <=> Did(c, "render")
        /\ (~UserInTenant(c) /\ frame[c].steps # <<>>) =>
              /\ ~Did(c, "loadTemplate")
              /\ ~Did(c, "loadSubscription")
              /\ frame[c].templateRows = <<>>
              /\ Threw(c)

\* C8 witness: the user exists in the tenant, the template does not, and the
\* call failed with TemplateNotFound.
C8_Witness ==
    \E c \in CallIds :
        /\ UserInTenant(c)
        /\ TemplatesInTenant(c) = {}
        /\ frame[c].thrown = TemplateNotFound

\* C9 (as claimed): each entry of the returned failure list carries the
\* reason recorded on that channel's delivery record.
C9_FailureReasons ==
    \A c \in CallIds :
        Returned(c) =>
            \A k \in DOMAIN frame[c].errors :
                \E n \in RecordsOf(c) :
                    /\ n.channel = frame[c].errors[k].channel
                    /\ n.status = FAILED
                    /\ n.error = frame[c].errors[k].error

\* C10 (as claimed): a finished call that attempted at least one channel and
\* delivered on none has returned, not thrown, with success = FALSE, no id and
\* one failure entry per resolved channel, and the controller answers 200.
C10_TotalFailureReturns ==
    \A c \in CallIds :
        (/\ Finished(c)
         /\ frame[c].attempted # <<>>
         /\ \A n \in RecordsOf(c) : n.status # SENT) =>
            /\ ~Threw(c)
            /\ Returned(c)
            /\ frame[c].value[1].success = FALSE
            /\ frame[c].value[1].notificationIds = <<>>
            /\ Len(frame[c].errors) = Len(frame[c].channels)
            /\ frame[c].pc = "responded" => frame[c].response.status = 200

\* C11: an empty resolved list is a valid result.  A consent record with every
\* flag false, or a template declaring no channel, resolves (without override)
\* to the empty list; a call whose resolved list is empty creates no delivery
\* record and invokes no provider, fails only on its content (translation
\* or render), and returns success = FALSE with no id and no failure entry.
C11_EmptyResolution ==
    \A c \in CallIds :
        /\ (Did(c, "resolveChannels") /\ ~HasOverride(c)) =>
              /\ (\E r \in ConsentRecords(c) : EnabledIn(r) = {})
                    => frame[c].channels = <<>>
              /\ (ConsentRecords(c) = {} /\ \E t \in TemplatesInTenant(c) : t.channels = <<>>)
                    => frame[c].channels = <<>>
        /\ (Did(c, "resolveChannels") /\ frame[c].channels = <<>>) =>
              /\ frame[c].created = {}
              /\ frame[c].attempted = <<>>
              /\ SendsOf(c) = {}
              /\ Threw(c) => Last(frame[c].steps) \in {"resolveLocale", "render"}
              /\ Returned(c) =>
                    /\ frame[c].value[1].success = FALSE
                    /\ frame[c].value[1].notificationIds = <<>>
                    /\ frame[c].value[1].errors = None
              /\ frame[c].pc = "responded" =>
                    /\ frame[c].response.status = 200
                    /\ frame[c].response.body = frame[c].value

\* C11 witness: the template declares two channels, the consent record sets
\* both to false, and the call returned an empty result.
C11_Witness ==
    \E c \in CallIds :
        /\ Returned(c)
        /\ ~HasOverride(c)
        /\ \E t \in TemplatesInTenant(c) : Len(t.channels) = 2
        /\ \E r \in ConsentRecords(c) : Len(r.channels) = 2 /\ EnabledIn(r) = {}
        /\ frame[c].value[1] = [success |-> FALSE, notificationIds |-> <<>>, errors |-> None]

\* C12 (as claimed): when the template declares at least one channel the
\* resolved list is not empty.
C12_NeverEmpty ==
    \A c \in CallIds :
        Did(c, "resolveChannels") =>
            \A t \in TemplatesInTenant(c) :
                t.channels # <<>> => frame[c].channels # <<>>

\* C12 (amended): the resolved list is empty exactly when there is no
\* non-empty override and either the consent record flags no channel true or,
\* without consent record, the template declares no channel.
C12_EmptyExactlyWhen ==
    \A c \in CallIds :
        Did(c, "resolveChannels") =>
            (frame[c].channels = <<>>
                <=> /\ ~HasOverride(c)
                    /\ IF ConsentRecords(c) # {}
                       THEN \A r \in ConsentRecords(c) : EnabledIn(r) = {}
                       ELSE \A t \in TemplatesInTenant(c) : t.channels = <<>>)

\* C12 witness: the channels were resolved to the empty list although the
\* template declares channels, because the consent record flags none true.
C12_Witness ==
    \E c \in CallIds :
        /\ frame[c].pc = "resolveLocale"
        /\ frame[c].channels = <<>>
        /\ \E t \in TemplatesInTenant(c) : t.channels # <<>>
        /\ \E r \in ConsentRecords(c) : r.channels # <<>> /\ EnabledIn(r) = {}

\* what a dispatch call has loaded belongs to the call's tenant
LoadsOwnTenant(c) ==
    /\ \A k \in DOMAIN frame[c].userRows :
          frame[c].userRows[k].tenant_id = frame[c].tenantId
    /\ \A k \in DOMAIN frame[c].templateRows :
          frame[c].templateRows[k].tenant_id = frame[c].tenantId
    /\ \A k \in DOMAIN frame[c].subscriptionRows :
          frame[c].subscriptionRows[k].tenant_id = frame[c].tenantId

\* a lookup of a user id or template key that the call's tenant does not own
\* at that moment ends the call
ForeignIdsNotFound(c) ==
    /\ (frame[c].pc = "loadUser" /\ frame'[c].pc # "loadUser" /\ ~UserInTenant(c))
          => frame'[c].thrown \in {UserNotFound, DbFailure}
    /\ (frame[c].pc = "loadTemplate" /\ frame'[c].pc # "loadTemplate"
                                     /\ TemplatesInTenant(c) = {})
          => frame'[c].thrown \in {TemplateNotFound, DbFailure}

\* the rows a dispatch of tenant tn reads: the tenant's users and templates,
\* and the consent records of the tenant's users
RowsReadFor(tn) ==
    <<{u \in users : u.tenant_id = tn},
      {t \in templates : t.tenant_id = tn},
      {r \in subscriptions : \E u \in users : u.tenant_id = tn /\ u.id = r.user_id}>>

\* C13 (as claimed): a dispatch call uses only a user, a template and a consent
\* record of its own tenant, a user id or template key that only another
\* tenant owns yields not-found, and no step of a request issued by one
\* tenant changes the rows that a dispatch of another tenant reads.
C13_TenantScoping ==
    [][/\ \A c \in CallIds : LoadsOwnTenant(c)' /\ ForeignIdsNotFound(c)
       /\ \A tn \in Tenants :
             (subCall' # subCall /\ subCall'.tenantId # tn) =>
                 RowsReadFor(tn)' = RowsReadFor(tn)]_vars

\* the content block a call renders, and whether its render step succeeded
ContentOf(c) == frame[c].translation[1]
ContentFields == {"subject", "title", "body"}
TokensOf(c) ==
    UNION {Range(ContentOf(c)[f][1]) : f \in {g \in ContentFields : ContentOf(c)[g] # None}}
RenderSucceeded(c) == Did(c, "render") /\ frame[c].i >= 1
RenderFailed(c) == Did(c, "render") /\ frame[c].i = 0

\* a pattern with every reference replaced by the variable's value, or by the
\* empty string when the variable is absent
RECURSIVE Substituted(_, _)
Substituted(pattern, variables) ==
    IF pattern = <<>> THEN ""
    ELSE LET tok == Head(pattern)
             text == IF tok.kind = "lit" THEN tok.text
                     ELSE IF tok.name \in DOMAIN variables THEN variables[tok.name]
                     ELSE ""
         IN  text \o Substituted(Tail(pattern), variables)

\* C14 (as claimed): rendering a content block made of literal text and bare
\* references never fails, and every field comes out as its pattern with each
\* reference replaced by the variable's value, or by the empty string when the
\* variable is absent.
C14_MissingVariables ==
    \A c \in CallIds :
        (Did(c, "render") /\ \A tok \in TokensOf(c) : tok.kind \in {"lit", "var"}) =>
            /\ RenderSucceeded(c)
            /\ \A f \in ContentFields :
                  frame[c].renderedContent[f] =
                      IF ContentOf(c)[f] = None THEN Undefined
                      ELSE Substituted(ContentOf(c)[f][1], VariablesOrEmpty(frame[c].request))

\* C15 (as claimed): a content block that applies a helper other than
\* uppercase, lowercase, formatDate and formatDateTime does not render: the
\* call fails with an error and produces no content.
C15_ClosedTransforms ==
    \A c \in CallIds :
        (/\ Did(c, "render")
         /\ \E tok \in TokensOf(c) :
               tok.kind = "helper" /\ tok.helper \notin RegisteredHelpers) =>
            /\ RenderFailed(c)
            /\ Threw(c)
            /\ frame[c].created = {}

\* C16: audit before send.  At every provider.send the store already holds the
\* channel's delivery record, still PENDING, with the call's tenant, user,
\* template key, channel, rendered content and variables; hence no send is
\* ever logged for a channel that has no delivery record.
C16_AuditBeforeSend ==
    [][Len(sendLog') > Len(sendLog) =>
         /\ LET e == Last(sendLog')
                c == e.call
            IN  \E n \in notifications :
                    /\ n.id = e.notificationId
                    /\ n.status = PENDING
                    /\ n.tenant_id = frame[c].tenantId
                    /\ n.user_id = frame[c].request.userId
                    /\ n.template_key = frame[c].request.templateKey
                    /\ n.channel = e.channel
                    /\ n.channel = frame[c].channels[frame[c].i]
                    /\ n.rendered_content = frame[c].renderedContent
                    /\ n.variables = VariablesOrEmpty(frame[c].request)
         /\ \A k \in DOMAIN sendLog' :
               \E n \in notifications' :
                   n.id = sendLog'[k].notificationId /\ n.channel = sendLog'[k].channel]_vars

\* C16 witness: a provider has just been invoked and the channel's delivery
\* record is in the store with status PENDING.
C16_Witness ==
    \E c \in CallIds :
        /\ frame[c].pc = "update"
        /\ Last(frame[c].steps) = "send"
        /\ \E n \in notifications :
              /\ n.id = Last(sendLog).notificationId
              /\ n.status = PENDING
              /\ n.channel = Last(sendLog).channel

\* the attempts of a call: position j of `attempted` got the id ids[j]
Attempts(c) == DOMAIN frame[c].attempted

\* sendToChannel has returned (or thrown) for the attempt that got this id
Settled(c, id) ==
    id # frame[c].notificationId \/ frame[c].pc \in {"loop", "returned", "threw", "responded"}

\* the call was aborted while it handled the attempt that got this id
AbortedAt(c, id) == Threw(c) /\ id = frame[c].notificationId

NoRecipientReason(channel) == "No recipient configured for channel " \o channel
NoProviderReason(channel) == "Provider not configured for channel " \o channel

\* C17 (as claimed): once a channel whose provider was invoked is settled, its
\* delivery record is SENT and its id is in the call's id list when the
\* provider reported success; when the provider reported a failure the record
\* is FAILED with the provider's reason and the id is not in the list; either
\* way the call went on after that channel.
C17_OutcomeRecorded ==
    \A k \in DOMAIN sendLog :
        LET e == sendLog[k]
            c == e.call
        IN  Settled(c, e.notificationId) =>
                /\ ~AbortedAt(c, e.notificationId)
                /\ \E n \in notifications :
                      /\ n.id = e.notificationId
                      /\ IF e.success
                         THEN /\ n.status = SENT
                              /\ e.notificationId \in Range(frame[c].notificationIds)
                         ELSE /\ n.status = FAILED
                              /\ n.error = e.error
                              /\ e.notificationId \notin Range(frame[c].notificationIds)

\* C18 (as claimed): a settled attempt on a channel whose provider is
\* configured and for which the user has no address has invoked no provider,
\* has a delivery record that is FAILED with the no-recipient reason, and did
\* not end the call.
C18_MissingRecipient ==
    \A c \in CallIds : \A j \in Attempts(c) :
        LET channel == frame[c].attempted[j]
            id == frame[c].ids[j]
        IN  (/\ channel \in providers
             /\ ~Truthy(RecipientOf(frame[c].userRows[1], channel))
             /\ Settled(c, id)) =>
                /\ ~\E k \in DOMAIN sendLog : sendLog[k].notificationId = id
                /\ \E n \in notifications :
                      /\ n.id = id
                      /\ n.channel = channel
                      /\ n.status = FAILED
                      /\ n.error = NoRecipientReason(channel)
                /\ ~AbortedAt(c, id)

\* C19 (as claimed): a settled attempt on a channel that has no provider has
\* invoked no provider, has a delivery record that is FAILED with the
\* provider-not-configured reason, and did not end the call.
C19_UnconfiguredProvider ==
    \A c \in CallIds : \A j \in Attempts(c) :
        LET channel == frame[c].attempted[j]
            id == frame[c].ids[j]
        IN  (channel \notin providers /\ Settled(c, id)) =>
                /\ ~\E k \in DOMAIN sendLog : sendLog[k].notificationId = id
                /\ \E n \in notifications :
                      /\ n.id = id
                      /\ n.channel = channel
                      /\ n.status = FAILED
                      /\ n.error = NoProviderReason(channel)
                /\ ~AbortedAt(c, id)

\* C20 (as claimed): the delivery record of a channel that has neither an
\* address nor a provider fails with the no-recipient reason.
C20_RecipientBeforeProvider ==
    \A c \in CallIds : \A n \in RecordsOf(c) :
        (/\ n.channel \notin providers
         /\ ~Truthy(RecipientOf(frame[c].userRows[1], n.channel))
         /\ n.status = FAILED) =>
            n.error = NoRecipientReason(n.channel)

\* C20 (amended): the provider table is consulted before the address.  The
\* address of a channel without provider is never looked at: the reason the
\* provider check hands to the status update, and the only check reason such
\* a channel's record can carry, is provider-not-configured, also when the user
\* has no address; the no-recipient reason is recorded only for channels whose
\* provider is configured.
C20_ProviderBeforeRecipient ==
    \A c \in CallIds :
        /\ frame[c].pc \in {"recipient", "send"} =>
              frame[c].channels[frame[c].i] \in providers
        /\ (/\ frame[c].pc = "update"
            /\ ~frame[c].inCatch
            /\ frame[c].channels[frame[c].i] \notin providers) =>
              frame[c].update =
                  [status |-> FAILED,
                   error |-> NoProviderReason(frame[c].channels[frame[c].i])]
        /\ \A n \in RecordsOf(c) :
              /\ n.error = NoRecipientReason(n.channel) =>
                    /\ n.channel \in providers
                    /\ ~Truthy(RecipientOf(frame[c].userRows[1], n.channel))
              /\ (n.channel \notin providers /\ n.status = FAILED) =>
                    n.error \in {NoProviderReason(n.channel), DbErrorMessage}

\* C20 witness: a channel with neither address nor provider was settled and
\* its delivery record is FAILED with the provider-not-configured reason.
C20_Witness ==
    \E c \in CallIds : \E n \in RecordsOf(c) :
        /\ n.channel \notin providers
        /\ ~Truthy(RecipientOf(frame[c].userRows[1], n.channel))
        /\ n.status = FAILED
        /\ n.error = NoProviderReason(n.channel)
        /\ Settled(c, n.id)

\* the steps of sendNotification that come before the channel loop, in the
\* order of the code
PipelineOrder ==
    <<"loadUser", "loadTemplate", "loadSubscription", "resolveChannels",
      "resolveLocale", "render">>

\* the steps a call has taken before its channel loop
PreludeOf(c) == SelectSeq(frame[c].steps, LAMBDA st : st \in Range(PipelineOrder))

\* C21: the steps before the loop occur once each and in the order load user,
\* load template, (load consent,) resolve channels, resolve locale, render;
\* they all precede every per-channel step, the result is aggregated once and
\* last, and no channel is entered, no delivery record created and no provider
\* invoked unless subject, title and body have been rendered successfully.
C21_PipelineOrder ==
    \A c \in CallIds :
        LET steps == frame[c].steps
            prelude == PreludeOf(c)
        IN  /\ prelude = SubSeq(PipelineOrder, 1, Len(prelude))
            /\ SubSeq(steps, 1, Len(prelude)) = prelude
            /\ \A k \in DOMAIN steps :
                  steps[k] = "return" =>
                      /\ \A m \in DOMAIN steps : m > k => steps[m] = "respond"
                      /\ \A m \in DOMAIN steps : m < k => steps[m] # "return"
                      /\ frame[c].attempted = frame[c].channels
            /\ (frame[c].attempted # <<>> \/ frame[c].created # {} \/ SendsOf(c) # {}
                  \/ Did(c, "return")) =>
                  LET r == RenderContentOf(ContentOf(c), VariablesOrEmpty(frame[c].request))
                  IN  /\ prelude = PipelineOrder
                      /\ r.ok
                      /\ frame[c].renderedContent = r.content

\* C21 witness: a call that returned after sending on two channels.
C21_Witness ==
    \E c \in CallIds :
        /\ Returned(c)
        /\ Last(frame[c].steps) = "return"
        /\ Len(frame[c].attempted) = 2
        /\ Cardinality(SendsOf(c)) = 2

\* positions of the resolved list, in order, and those that returned an id
PositionsOf(c) == [j \in 1..Len(frame[c].channels) |-> j]
DeliveredAt(c, j) == frame[c].ids[j] \in Range(frame[c].notificationIds)

\* C22: a result is produced only when every position of the resolved list has
\* been attempted and settled, and it accounts for each position exactly once:
\* the ids are those of the delivered positions, the failure entries name the
\* channels of the other positions, both in the order of the list, so that
\* |notificationIds| + |errors| is the length of the list.
C22_FanInComplete ==
    \A c \in CallIds :
        Returned(c) =>
            LET v == frame[c].value[1]
                delivered == SelectSeq(PositionsOf(c), LAMBDA j : DeliveredAt(c, j))
                failed == SelectSeq(PositionsOf(c), LAMBDA j : ~DeliveredAt(c, j))
                errors == IF v.errors = None THEN <<>> ELSE v.errors[1]
            IN  /\ frame[c].attempted = frame[c].channels
                /\ Len(frame[c].ids) = Len(frame[c].channels)
                /\ \A j \in Attempts(c) : Settled(c, frame[c].ids[j])
                /\ Len(v.notificationIds) + Len(errors) = Len(frame[c].channels)
                /\ v.notificationIds =
                      [k \in 1..Len(delivered) |-> frame[c].ids[delivered[k]]]
                /\ [k \in 1..Len(errors) |-> errors[k].channel] =
                      [k \in 1..Len(failed) |-> frame[c].channels[failed[k]]]

\* C22 witness: the same channel twice in the list, both attempts failed, and
\* the result has two failure entries.
C22_Witness ==
    \E c \in CallIds :
        /\ Returned(c)
        /\ Len(frame[c].channels) = 2
        /\ frame[c].channels[1] = frame[c].channels[2]
        /\ frame[c].value[1].notificationIds = <<>>
        /\ frame[c].value[1].errors # None
        /\ Len(frame[c].value[1].errors[1]) = 2

\* C23: no retries.  The attempts of a call are a prefix of its resolved list,
\* one attempt per position with an id of its own, and each attempt has invoked
\* its provider at most once; every provider invocation belongs to an attempt.
C23_NoRetries ==
    \A c \in CallIds :
        /\ Len(frame[c].attempted) <= Len(frame[c].channels)
        /\ frame[c].attempted = SubSeq(frame[c].channels, 1, Len(frame[c].attempted))
        /\ Cardinality(Range(frame[c].ids)) = Len(frame[c].ids)
        /\ \A j \in Attempts(c) :
              Cardinality({k \in SendsOf(c) :
                              sendLog[k].notificationId = frame[c].ids[j]}) <= 1
        /\ \A k \in SendsOf(c) :
              \E j \in Attempts(c) :
                  /\ sendLog[k].notificationId = frame[c].ids[j]
                  /\ sendLog[k].channel = frame[c].attempted[j]

\* C23 witness: the first channel's provider reported a failure, the call went
\* on to the second channel and returned; the failed channel was invoked once.
C23_Witness ==
    \E c \in CallIds :
        /\ Returned(c)
        /\ Len(frame[c].attempted) = 2
        /\ \E k \in SendsOf(c) :
              /\ ~sendLog[k].success
              /\ sendLog[k].notificationId = frame[c].ids[1]
        /\ Cardinality({k \in SendsOf(c) : sendLog[k].channel = frame[c].attempted[1]}) = 1

\* what a call returns when nothing else runs and no query is rejected: the
\* ids of the positions of its resolved list whose channel has a provider and
\* an address and whose send the provider reported as successful
ResolvedAlone(c) ==
    ResolveChannelList(frame[c].request, RowsOf(ConsentRecords(c)),
                       CHOOSE t \in TemplatesInTenant(c) : TRUE)
SendSucceeded(c, id) ==
    \E k \in SendsOf(c) : sendLog[k].notificationId = id /\ sendLog[k].success
OwnResult(c) ==
    /\ \A d \in CallIds \ {c} :
          /\ frame[c].created \cap frame[d].created = {}
          /\ Range(frame[c].ids) \cap Range(frame[d].ids) = {}
    /\ \A n \in RecordsOf(c) :
          /\ n.tenant_id = frame[c].tenantId
          /\ n.user_id = frame[c].request.userId
          /\ n.rendered_content = frame[c].renderedContent
    /\ Cardinality(RecordsOf(c)) = Cardinality(frame[c].created)
    /\ Returned(c) =>
          LET v == frame[c].value[1]
          IN  /\ frame[c].channels = ResolvedAlone(c)
              /\ v = AggregateResult(frame[c].notificationIds, frame[c].errors)
              /\ Range(v.notificationIds) \subseteq frame[c].created
              /\ Len(frame[c].notificationIds) + Len(frame[c].errors) = Len(frame[c].channels)
              /\ dbFaults = 0 =>
                    \A j \in Attempts(c) :
                        DeliveredAt(c, j) <=>
                            /\ frame[c].channels[j] \in providers
                            /\ Truthy(RecipientOf(frame[c].userRows[1], frame[c].channels[j]))
                            /\ SendSucceeded(c, frame[c].ids[j])

\* a step in which call c does not move leaves c's records and sends alone, no
\* step moves two calls, and an id handed out is new to every call and record
StepIsolated ==
    /\ \A c \in CallIds :
          frame'[c] = frame[c] =>
              /\ RecordsOf(c)' = RecordsOf(c)
              /\ SendsOf(c)' = SendsOf(c)
              /\ \A k \in SendsOf(c) : sendLog'[k] = sendLog[k]
    /\ \A c, d \in CallIds : c # d => frame'[c] = frame[c] \/ frame'[d] = frame[d]
    /\ \A c \in CallIds :
          frame'[c].ids # frame[c].ids =>
              /\ Len(frame'[c].ids) = Len(frame[c].ids) + 1
              /\ Last(frame'[c].ids) \notin {n.id : n \in notifications}
              /\ \A d \in CallIds : Last(frame'[c].ids) \notin Range(frame[d].ids)
    /\ {n.id : n \in notifications} \subseteq {n.id : n \in notifications'}

\* C24: calls in flight at the same time do not interfere.  Each call creates
\* its own delivery records under ids no other call or record has, a step of
\* one call changes no record and no send of another, and a call that returns
\* returns what its own request, the rows it reads and its own providers'
\* answers determine, exactly as when it runs alone.
C24_NoInterference ==
    [][StepIsolated /\ \A c \in CallIds : OwnResult(c) /\ OwnResult(c)']_vars

\* C24 witness: two calls for the same user and template whose attempts
\* alternate; both have returned, each with the id of its own e-mail record, and
\* the same message was sent twice.
C24_Witness ==
    /\ frame["c1"].request = frame["c2"].request
    /\ frame["c1"].tenantId = frame["c2"].tenantId
    /\ Returned("c1") /\ Returned("c2")
    /\ dbFaults = 0
    /\ frame["c1"].ids = <<1, 3>> /\ frame["c2"].ids = <<2, 4>>
    /\ frame["c1"].value[1].notificationIds = <<1>>
    /\ frame["c2"].value[1].notificationIds = <<2>>
    /\ \E j, k \in DOMAIN sendLog :
          /\ sendLog[j].call = "c1" /\ sendLog[k].call = "c2"
          /\ sendLog[j].to = sendLog[k].to /\ sendLog[j].body = sendLog[k].body

\* the call is past rendering and has not produced its result: it is inside
\* the channel loop or was thrown out of it
InsideLoop(c) == RenderSucceeded(c) /\ ~Did(c, "return")

\* the only write that touches an existing record: the status update of the
\* attempt that owns it
WrittenBy(c, n) ==
    [n EXCEPT !.status = frame[c].update.status, !.error = frame[c].update.error,
              !.sent_at = IF frame[c].update.status = SENT THEN "now" ELSE Undefined]
RecordsKept ==
    \A n \in notifications :
        \E m \in notifications' :
            /\ m.id = n.id
            /\ \/ m = n
               \/ \E c \in CallIds : /\ frame[c].pc = "update"
                                     /\ frame[c].notificationId = n.id
                                     /\ m = WrittenBy(c, n)

\* every record belongs to an attempt that was started, one record per attempt
\* at most, on the channel of that attempt; positions not reached have none
RecordsOfAttempts(c) ==
    /\ Cardinality(RecordsOf(c)) = Cardinality(frame[c].created)
    /\ Cardinality(frame[c].created) <= Len(frame[c].attempted)
    /\ \A n \in RecordsOf(c) :
          \E j \in Attempts(c) : n.id = frame[c].ids[j] /\ n.channel = frame[c].attempted[j]
    /\ \A n \in notifications : \E d \in CallIds : n.id \in frame[d].created

\* C25 as stated: a call stopped inside the channel loop leaves each of its
\* records PENDING or FAILED, and no record for a channel it has not reached.
C25_PendingOrFailed ==
    \A c \in CallIds :
        InsideLoop(c) =>
            /\ RecordsOfAttempts(c)
            /\ \A n \in RecordsOf(c) : n.status \in {PENDING, FAILED}

\* C25 amended: a call stopped inside the channel loop leaves each of its
\* records with the status written last, PENDING, SENT or FAILED; a record is
\* never removed, it changes only through the status update of its own
\* attempt, and a channel that was not reached has no record.
C25_NoRollback ==
    [][/\ RecordsKept
       /\ \A c \in CallIds :
             InsideLoop(c)' =>
                 /\ RecordsOfAttempts(c)'
                 /\ \A n \in RecordsOf(c)' : n.status \in {PENDING, SENT, FAILED}]_vars

\* C25 witness: the call was thrown out of the loop at its second channel; the
\* first channel's record is SENT and the second one's is still PENDING.
C25_Witness ==
    \E c \in CallIds :
        /\ InsideLoop(c) /\ Threw(c)
        /\ Len(frame[c].attempted) = 2
        /\ \E n, m \in RecordsOf(c) :
              /\ n.id = frame[c].ids[1] /\ n.status = SENT
              /\ m.id = frame[c].ids[2] /\ m.status = PENDING

ProviderName(channel) ==
    CASE channel = "APPLE_PUSH" -> "APNs"
      [] channel = "GOOGLE_PUSH" -> "FCM"
      [] channel = "SMS" -> "SMS"
      [] channel = "EMAIL" -> "Email"

\* C26: send of a provider never throws.  Every call resolves to a success
\* with a message id or to a failure with an error; an unconfigured provider
\* answers "<name> provider not configured" without calling its transport; an
\* exception of the transport becomes a failure with the exception's message
\* ('Unknown error' when what was thrown is not an Error), in the same form as
\* a failure the backend reports.
C26_SendNeverThrows ==
    \A k \in DOMAIN sendLog :
        LET e == sendLog[k] IN
        e.call = "direct" =>
            /\ e.thrown = Undefined
            /\ e.returns # None
            /\ LET r == e.returns[1] IN
               /\ DOMAIN r = {"success", "messageId", "error"}
               /\ r.success => r.error = Undefined
               /\ ~r.success => r.messageId = Undefined /\ r.error # Undefined
               /\ ~e.configured =>
                     /\ r = SendFailure(ProviderName(e.channel) \o " provider not configured")
                     /\ e.calls = 0
               /\ e.configured =>
                     /\ e.calls = 1
                     /\ e.transport[1].kind = "throws" =>
                           r = SendFailure(IF e.transport[1].isError
                                           THEN e.transport[1].message
                                           ELSE "Unknown error")
                     /\ e.transport[1].kind = "resolves" =>
                           r.success = (e.transport[1].failed = <<>>)

\* C26 witness: the SMS transport threw an Error and send resolved to a failure
\* with its message, and an unconfigured provider answered without its transport.
C26_Witness ==
    \E j, k \in DOMAIN sendLog :
        /\ sendLog[j].call = "direct" /\ sendLog[j].channel = "SMS"
        /\ sendLog[j].configured
        /\ sendLog[j].transport = Some(Throws(TRUE, "connection refused"))
        /\ sendLog[j].returns = Some(SendFailure("connection refused"))
        /\ sendLog[k].call = "direct" /\ ~sendLog[k].configured
        /\ sendLog[k].calls = 0

\* a body the endpoint must refuse: userId missing or not a UUID, templateKey
\* missing, or a channel tag that is not a delivery channel
InvalidBody(body) ==
    \/ body.userId = None
    \/ body.userId # None /\ ~IsUuid(body.userId[1])
    \/ body.templateKey = None
    \/ body.channels # None /\ \E k \in DOMAIN body.channels[1] :
                                   body.channels[1][k] \notin Channels
ServiceInvoked(c) ==
    \/ Len(frame[c].steps) > 1
    \/ frame[c].pc \notin {"validate", "responded"}
    \/ RecordsOf(c) # {} \/ SendsOf(c) # {} \/ frame[c].ids # <<>>

\* C27: POST /notifications/send answers 400 to a body that fails validation
\* and does not call the dispatch service for it; for a valid body it calls the
\* service, answers 500 with the error's message when the service throws and
\* otherwise answers with the service result as the body.
C27_StatusMapping ==
    \A c \in CallIds :
        frame[c].body # None /\ frame[c].pc # "validate" =>
            LET body == frame[c].body[1]
                res == frame[c].response
            IN  /\ InvalidBody(body) =>
                      /\ res = [status |-> 400, body |-> None, error |-> "Invalid request"]
                      /\ frame[c].pc = "responded"
                      /\ ~ServiceInvoked(c)
                /\ ~InvalidBody(body) =>
                      /\ ServiceInvoked(c)
                      /\ frame[c].request.userId = body.userId[1]
                      /\ frame[c].request.templateKey = body.templateKey[1]
                      /\ frame[c].request.channels = body.channels
                      /\ frame[c].request.variables = body.variables
                      /\ res.status \in {0, 200, 500}
                      /\ (res.status = 0) = (frame[c].pc # "responded")
                      /\ frame[c].pc = "responded" =>
                            /\ Threw(c) =>
                                  /\ res.status = 500 /\ res.body = None
                                  /\ res.error = frame[c].thrown
                            /\ ~Threw(c) =>
                                  /\ Returned(c)
                                  /\ res = [status |-> 200, body |-> frame[c].value,
                                            error |-> Undefined]

\* C27 witness: a body with a valid user id and template key and one unknown
\* channel tag was answered 400.
C27_Witness ==
    \E c \in CallIds :
        /\ frame[c].body # None
        /\ frame[c].body[1].userId = Some("u1")
        /\ frame[c].body[1].templateKey = Some("welcome")
        /\ frame[c].body[1].channels = Some(<<"EMAIL", "FAX">>)
        /\ frame[c].response.status = 400

\* C28: when a call returns a result, every delivery record it created is SENT
\* or FAILED and none is PENDING, also when the INSERT or a status update of
\* the call was rejected.
C28_NoPendingOnReturn ==
    \A c \in CallIds :
        Returned(c) => \A n \in RecordsOf(c) : n.status \in {SENT, FAILED}

\* C28 witness: the call returned although one of its status updates was
\* rejected (the handler's update follows it) and one of its INSERTs may have
\* been; its records are all final.
C28_Witness ==
    \E c \in CallIds :
        /\ Returned(c)
        /\ dbFaults > 0
        /\ \E k \in 1..(Len(frame[c].steps) - 1) :
              frame[c].steps[k] = "update" /\ frame[c].steps[k + 1] = "update"
        /\ RecordsOf(c) # {}
        /\ \A n \in RecordsOf(c) : n.status \in {SENT, FAILED}

\* the delivery record of an id, as a set
RecordWithId(id) == {n \in notifications : n.id = id}

\* C29: the result and the store agree.  When a call has returned, an id is
\* among its notificationIds exactly if its record is SENT, a record is SENT
\* only if the provider reported success for it, and a channel whose provider
\* reported success is neither reported as failed nor recorded as FAILED.
C29_ResultMatchesStore ==
    \A c \in CallIds :
        Returned(c) =>
            /\ \A id \in Range(frame[c].ids) :
                  id \in Range(frame[c].value[1].notificationIds)
                      <=> \E n \in RecordWithId(id) : n.status = SENT
            /\ \A n \in RecordsOf(c) : n.status = SENT => SendSucceeded(c, n.id)
            /\ \A j \in Attempts(c) :
                  SendSucceeded(c, frame[c].ids[j]) =>
                      /\ DeliveredAt(c, j)
                      /\ \A n \in RecordWithId(frame[c].ids[j]) : n.status # FAILED

\* what is new in the store and what became of the records it had
NewRecords == {m \in notifications' : m.id \notin {n.id : n \in notifications}}
SuccessorOf(n) == {m \in notifications' : m.id = n.id}

\* C30: the status of a delivery record is monotone.  A record is created
\* PENDING with no error and no sent_at; a PENDING record stays or becomes SENT
\* or FAILED; a SENT or FAILED record is never changed again; sent_at is set
\* exactly on SENT records and error is null on them.
C30_StatusMonotone ==
    [][/\ \A m \in NewRecords :
             m.status = PENDING /\ m.error = Undefined /\ m.sent_at = Undefined
       /\ \A n \in notifications :
             /\ Cardinality(SuccessorOf(n)) = 1
             /\ n.status \in {SENT, FAILED} => SuccessorOf(n) = {n}
             /\ n.status = PENDING =>
                   \A m \in SuccessorOf(n) : m.status \in {PENDING, SENT, FAILED}
       /\ \A m \in notifications' :
             /\ Truthy(m.sent_at) <=> m.status = SENT
             /\ m.status = SENT => m.error = Undefined]_vars

\* C30 witness: a record that was updated to FAILED and one updated to SENT,
\* the first without and the second with sent_at.
C30_Witness ==
    \E n, m \in notifications :
        /\ n.status = FAILED /\ Truthy(n.error) /\ ~Truthy(n.sent_at)
        /\ m.status = SENT /\ Truthy(m.sent_at)

=============================================================================
